---- MODULE Spec2Model ----
(***************************************************************************)
(* Real-time speech turn-taking pipeline of the Operator Voice Trainer:    *)
(*   - VADDetector            (backend/components/vad_detector.py)         *)
(*   - sentence extraction and Orchestrator.process_streaming              *)
(*                            (backend/components/utils.py, orchestrator.py)*)
(*   - STT streaming sessions (stt_service/components/stt.py)              *)
(*   - websocket_call         (backend/main.py)                            *)
(* Each component has its own specification over its own variables; the   *)
(* variables of the other components stay at their initial values.         *)
(***************************************************************************)
EXTENDS Integers, Sequences, FiniteSets, TLC

VARIABLES
    \* ---- VADDetector (one instance) ----
    vad_cfg,          \* constructor arguments
    speech_buffer,    \* self.speech_buffer: sequence of frames
    silence_samples,  \* self.silence_samples
    speech_started,   \* self.speech_started
    speech_samples,   \* self.speech_samples
    audio_buffer,     \* self._audio_buffer
    vad_in,           \* number of samples passed to process_chunk so far
    vad_fed,          \* number of samples of process_chunk handed to the classifier so far
    vad_calls,        \* number of classifier calls so far
    vad_frames,       \* frames the last call handed to the classifier, with their class
    vad_ret,          \* what the last process_chunk / flush call returned
    vad_event,        \* what the last call decided, with the counters at that moment
    ex_case,          \* the worked example being fed to the detector, if any
    ex_segments,      \* the segments process_chunk has returned while it was fed
    \* ---- Orchestrator.process_streaming (one turn) ----
    t_pc,                 \* where the coroutine is
    raw_response,         \* raw_response
    sentence_buffer,      \* sentence_buffer
    processed_sentences,  \* processed_sentences
    t_queue,              \* complete_sentences not yet handled by the for loop
    t_remaining,          \* remaining, assigned to sentence_buffer after the for loop
    t_cur,                \* the sentence whose synthesis or send is under way
    t_deltas,             \* the text chunks the generation stream has yielded
    t_units,              \* every sentence extract_complete_sentences has returned
    t_log,                \* synthesis calls and messages sent, in order
    ws_out,               \* messages sent to the client during the turn
    t_gen,                \* the generation stream is "running" or has "failed"
    \* ---- STT (the transcription service) ----
    streams,       \* self.streams: session id -> StreamingState, or NoStream
    stt_in,        \* per session: number of decoded samples received so far
    stt_last,      \* per session: text last returned on its current stream
    stt_frames,    \* frames the last operation passed to pipeline.forward
    stt_nfinalize, \* number of pipeline.finalize calls the last operation made
    stt_ncalls,    \* number of recognizer calls (forward and finalize) so far
    stt_ret,       \* what the last operation returned
    stt_warn,      \* what process_chunk logged about the stream it found, when the
                   \* last operation was process_chunk ("none" otherwise)
    stt_hist,      \* per session, since its stream was created: the frames passed
                   \* to forward, the phrases the recognizer returned, whether a
                   \* recognizer call raised, and the ordinal of the first sample
    \* ---- websocket_call (one handler per connection) ----
    c_pc,          \* per connection: where its handler is
    c_sid,         \* per connection: the session_id of its path
    c_open,        \* per connection: the client has not disconnected
    c_after,       \* per connection: which process_streaming call site is running
    c_left,        \* per connection: sentences the running turn has still to synthesize
    c_sent,        \* per connection: type of the last message sent to the client
    call_streams,  \* the transcription service's stream of each session id
    c_chunks,      \* number of audio_chunk messages handled so far
    c_turns,       \* number of process_streaming calls made so far
    c_vad,         \* per connection: its detector is "idle" or "accumulating" speech
    c_msgs,        \* per connection: the messages sent to its client since its
                   \* handler last received a message from it (since the accept before)
    c_start,       \* per connection: whether its session was known and its stream started
    c_begin,       \* the call of process_streaming made in the last step (NoBegin
                   \* after a step that made none)
    c_feed,        \* the calls made for the audio_chunk message handled in the last
                   \* step (NoFeed after any other step)
    c_exit,        \* per connection: why its receive loop ended, "none" while it runs
    \* ---- Context and SessionManager (backend), with the transcriber's sessions ----
    contexts,      \* Context.contexts: session id -> list of messages, or NoContext
    sessions,      \* SessionManager.sessions: session id -> record, or NoSession
    sh_ops,        \* number of operations made on the per-session stores so far
    sh_last,       \* the session id the last of these operations was called with
    \* ---- one training session: its turns and end_training (backend) ----
    tr_llm,        \* LLM.llm is set (a model is configured)
    tr_pc,         \* the turn of process_streaming in flight: "none" or "generating"
    tr_cur,        \* that turn: ordinal, transcription, context_data, generation call
    tr_end,        \* end_training in flight: "none", or "writing" while it awaits the store
    tr_snap,       \* the pending lists end_training handed to the store
    tr_db,         \* the batch writes made so far: lists written, and whether it raised
    tr_hist,       \* the turns that have returned, in order
    tr_rec,        \* what was recorded for the session since its start or last end
    tr_turns,      \* number of turns begun
    tr_ends,       \* number of end_training requests begun
    \* ---- LLMJudge ----
    j_in,          \* arguments of one evaluate call and what the backend answers to it
    j_out          \* what the call returned or raised (NoResult before it)

vadVars == <<vad_cfg, speech_buffer, silence_samples, speech_started, speech_samples,
             audio_buffer, vad_in, vad_fed, vad_calls, vad_frames, vad_ret, vad_event,
             ex_case, ex_segments>>

turnVars == <<t_pc, raw_response, sentence_buffer, processed_sentences, t_queue,
              t_remaining, t_cur, t_deltas, t_units, t_log, ws_out, t_gen>>

sttVars == <<streams, stt_in, stt_last, stt_frames, stt_nfinalize, stt_ncalls, stt_ret,
             stt_warn, stt_hist>>

callVars == <<c_pc, c_sid, c_open, c_after, c_left, c_sent, call_streams, c_chunks,
              c_turns, c_vad, c_msgs, c_start, c_feed, c_begin, c_exit>>
storeVars == <<contexts, sessions, sh_ops, sh_last>>
trainVars == <<tr_llm, tr_pc, tr_cur, tr_end, tr_snap, tr_db, tr_hist, tr_rec, tr_turns,
               tr_ends>>

judgeVars == <<j_in, j_out>>

vars == <<vadVars, turnVars, sttVars, callVars, storeVars, trainVars, judgeVars>>

(***************************************************************************)
(* Bounds of the model.                                                    *)
(***************************************************************************)
MaxVadFrames == 5      \* at most this many frames worth of samples are fed to a detector
MaxExtraSilenceChunks == 2  \* payloads of silence sent after a worked example
MaxFrameDurationMs == 40  \* frame_duration_ms arguments range over 0..MaxFrameDurationMs
MaxTrainingTurns == 2   \* at most this many turns are begun in a training session
MaxEndTrainings == 2    \* at most this many end_training requests are made
MaxSessionOps == 3      \* at most this many operations on the per-session stores
MaxContextMessages == 3 \* at most this many messages in the context of a session
MaxPending == 1         \* at most this many pending entries of a kind per session
MaxDeltas == 3         \* at most this many text chunks in one generation stream
MaxSttFrames == 3      \* at most this many frames worth of samples in all
MaxSttCalls == 4       \* at most this many recognizer calls in all
MaxCallChunks == 2     \* at most this many audio_chunk messages in all
MaxCallTurns == 2      \* at most this many process_streaming calls in all
MaxTurnSynths == 2     \* at most this many sentences to synthesize in one turn

(***************************************************************************)
(* Generic helpers.                                                        *)
(***************************************************************************)
Min(a, b) == IF a <= b THEN a ELSE b
Max(a, b) == IF a >= b THEN a ELSE b


(***************************************************************************)
(* VADDetector.                                                            *)
(*                                                                         *)
(* A run of samples is [lo, len, pad]: the len samples that arrived with   *)
(* ordinals lo .. lo+len-1, followed by pad zero samples.  Sample values   *)
(* are not modelled (the int16 -> float32 -> int16 conversion of lines 139 *)
(* and 185 is exact); the classifier's answer for a frame is an input.     *)
(***************************************************************************)
EmptyRun == [lo |-> 0, len |-> 0, pad |-> 0]

RunLen(r) == r.len + r.pad

\* np.concatenate([buffer, samples]): n samples arriving with ordinals at .. (a run
\* that already carries zeros keeps the counts of both kinds, not their order)
RunAppend(r, n, at) ==
    IF n = 0 THEN r
    ELSE IF RunLen(r) = 0 THEN [lo |-> at, len |-> n, pad |-> 0]
    ELSE [r EXCEPT !.len = @ + n]

\* Mutant of RunPad: nothing is appended.
RunPadNone(r, n) == r

\* np.concatenate([buffer, np.zeros(n)])
RunPad(r, n) == IF n = 0 THEN r ELSE [r EXCEPT !.pad = @ + n]

\* Mutant of RunTake: the whole buffer is taken.
RunTakeAll(r, n) == r

\* buffer[:n]
RunTake(r, n) ==
    LET real == Min(r.len, n) IN [lo |-> r.lo, len |-> real, pad |-> n - real]

\* Mutant of RunDrop: one sample more is removed.
RunDropOneMore(r, n) ==
    LET real == Min(r.len, n + 1)
        rest == [lo |-> r.lo + real, len |-> r.len - real,
                 pad |-> Max(0, r.pad - (n + 1 - real))]
    IN IF RunLen(rest) = 0 THEN EmptyRun ELSE rest

\* buffer[n:]
RunDrop(r, n) ==
    LET real == Min(r.len, n)
        rest == [lo |-> r.lo + real, len |-> r.len - real, pad |-> r.pad - (n - real)]
    IN IF RunLen(rest) = 0 THEN EmptyRun ELSE rest

\* Constructor arguments the model draws from (main.py constructs 16000/32/1500/500;
\* the short durations keep an utterance within a few frames).
SampleRates == {8000, 16000}
FrameDurationsMs == {32}
SilenceDurationsMs == {64, 96}
MinSpeechDurationsMs == {32, 64}

VadConfigs ==
    [sample_rate : SampleRates, frame_duration_ms : FrameDurationsMs,
     silence_duration_ms : SilenceDurationsMs,
     min_speech_duration_ms : MinSpeechDurationsMs]

\* Mutant of FrameSizeSamples: the frame is not raised to the classifier's minimum.
FrameSizeSamplesUnclamped(cfg) == (cfg.sample_rate * cfg.frame_duration_ms) \div 1000

\* int(sample_rate / 31.25)
MinChunkSamples(cfg) == (cfg.sample_rate * 4) \div 125

\* self.frame_duration_ms after the minimum check: frame_duration_ms < min_chunk_ms
EffectiveFrameDurationMs(cfg) ==
    IF cfg.frame_duration_ms * cfg.sample_rate < MinChunkSamples(cfg) * 1000
    THEN (MinChunkSamples(cfg) * 1000) \div cfg.sample_rate
    ELSE cfg.frame_duration_ms

FrameSizeSamples(cfg) ==
    Max((cfg.sample_rate * EffectiveFrameDurationMs(cfg)) \div 1000, MinChunkSamples(cfg))

SilenceThresholdSamples(cfg) == (cfg.sample_rate * cfg.silence_duration_ms) \div 1000

MinSpeechSamples(cfg) == (cfg.sample_rate * cfg.min_speech_duration_ms) \div 1000

\* The classifier on one frame: score >= threshold, score < threshold, or it raises.
Labels == {"speech", "silence", "error"}

\* len(chunk_bytes): 2 bytes per sample of the frame
ChunkBytesLen(f) == 2 * RunLen(f)

\* sum(len(chunk) // 2 for chunk in self.speech_buffer)
RECURSIVE TotalSpeechSamples(_)
TotalSpeechSamples(buf) ==
    IF buf = <<>> THEN 0
    ELSE (ChunkBytesLen(Head(buf)) \div 2) + TotalSpeechSamples(Tail(buf))

NoEvent == [kind |-> "none", speech |-> 0, silence |-> 0]
RetNone == [kind |-> "none", seg |-> <<>>]
RetSegment(seg) == [kind |-> "segment", seg |-> seg]
RetRaise == [kind |-> "raise", seg |-> <<>>]

\* The detector's fields as one value, with the return value and the history.
VadState(sb, sil, st, sp, ab) ==
    [speech_buffer |-> sb, silence_samples |-> sil, speech_started |-> st,
     speech_samples |-> sp, audio_buffer |-> ab, frames |-> <<>>,
     ret |-> RetNone, event |-> NoEvent]

\* Mutant of VadReset: the accumulated utterance is kept.
VadResetKeepingSpeech(d) ==
    [d EXCEPT !.silence_samples = 0, !.audio_buffer = EmptyRun]

\* VADDetector._reset
VadReset(d) ==
    [d EXCEPT !.speech_buffer = <<>>, !.silence_samples = 0, !.speech_started = FALSE,
              !.speech_samples = 0, !.audio_buffer = EmptyRun]

\* Mutant of OnSpeechFrame: the silence counter is kept.
OnSpeechFrameKeepingSilence(d, chunk, chunk_size) ==
    [d EXCEPT !.speech_buffer = Append(@, chunk),
              !.speech_started = TRUE, !.speech_samples = @ + chunk_size]

\* lines 187-198: a frame scored at or above threshold
OnSpeechFrame(d, chunk, chunk_size) ==
    [d EXCEPT !.speech_buffer = Append(@, chunk), !.silence_samples = 0,
              !.speech_started = TRUE, !.speech_samples = @ + chunk_size]

\* Mutant of OnSilenceFrame: the frame is also appended to the speech buffer.
OnSilenceFrameAppending(d, chunk, chunk_size) ==
    [d EXCEPT !.speech_buffer = Append(@, chunk), !.silence_samples = @ + chunk_size]

\* lines 201-203: a frame scored below threshold while speech_started
OnSilenceFrame(d, chunk, chunk_size) ==
    [d EXCEPT !.silence_samples = @ + chunk_size]

\* Mutant of SegmentIsValid: any accumulated speech is long enough.
SegmentIsValidAlways(total_speech_samples, cfg) == TRUE

\* Mutant of SegmentIsValid: strict comparison.
SegmentIsValidStrict(total_speech_samples, cfg) ==
    total_speech_samples > MinSpeechSamples(cfg)

\* line 217 / line 281: total_speech_samples >= self.min_speech_samples
SegmentIsValid(total_speech_samples, cfg) ==
    total_speech_samples >= MinSpeechSamples(cfg)

\* lines 213-240: the end-of-speech check after a silence frame, which ends the loop;
\* the event records the counters at that moment.
EndOfSpeech(d, cfg) ==
    LET total_speech_samples == TotalSpeechSamples(d.speech_buffer)
        ev(k) == [kind |-> k, speech |-> d.speech_samples, silence |-> d.silence_samples]
    IN IF SegmentIsValid(total_speech_samples, cfg)
       THEN [VadReset(d) EXCEPT !.ret = RetSegment(d.speech_buffer), !.event = ev("emit")]
       ELSE [VadReset(d) EXCEPT !.ret = RetNone, !.event = ev("discard")]

\* VADDetector._process_audio_buffer; labels are the classifier's answers for the
\* frames the loop slices, in order.
RECURSIVE ProcessAudioBuffer(_, _, _)
ProcessAudioBuffer(d, cfg, labels) ==
    LET chunk_size == FrameSizeSamples(cfg) IN
    IF RunLen(d.audio_buffer) < chunk_size THEN d
    ELSE
      LET chunk == RunTake(d.audio_buffer, chunk_size)
          label == Head(labels)
          d1 == [d EXCEPT !.audio_buffer = RunDrop(@, chunk_size),
                          !.frames = Append(@, [frame |-> chunk, label |-> label])]
      IN CASE label = "error" -> ProcessAudioBuffer(d1, cfg, Tail(labels))
           [] label = "speech" ->
                ProcessAudioBuffer(OnSpeechFrame(d1, chunk, chunk_size), cfg, Tail(labels))
           [] OTHER ->
                IF d1.speech_started
                THEN LET d2 == OnSilenceFrame(d1, chunk, chunk_size) IN
                     IF d2.silence_samples >= SilenceThresholdSamples(cfg)
                     THEN EndOfSpeech(d2, cfg)
                     ELSE ProcessAudioBuffer(d2, cfg, Tail(labels))
                ELSE ProcessAudioBuffer(d1, cfg, Tail(labels))

\* VADDetector.process_chunk on nsamples decoded samples
ProcessChunkD(d, cfg, nsamples, at, labels) ==
    LET d1 == [d EXCEPT !.audio_buffer = RunAppend(@, nsamples, at)] IN
    IF RunLen(d1.audio_buffer) < FrameSizeSamples(cfg) THEN d1
    ELSE ProcessAudioBuffer(d1, cfg, labels)

\* Mutant of FlushTail: whatever is accumulated is returned.
FlushTailAlways(d, cfg) ==
    [VadReset(d) EXCEPT !.ret = RetSegment(d.speech_buffer),
                        !.event = [kind |-> "flush_emit", speech |-> d.speech_samples,
                                   silence |-> d.silence_samples]]

\* lines 278-293 of flush: the check without the silence threshold.  The event of an
\* end-of-speech check made by the loop just before is kept.
FlushTail(d, cfg) ==
    LET total_speech_samples == TotalSpeechSamples(d.speech_buffer)
        ev(k) == IF d.event.kind = "none"
                 THEN [kind |-> k, speech |-> d.speech_samples,
                       silence |-> d.silence_samples]
                 ELSE d.event
    IN IF d.speech_started /\ SegmentIsValid(total_speech_samples, cfg)
       THEN [VadReset(d) EXCEPT !.ret = RetSegment(d.speech_buffer),
                                !.event = ev("flush_emit")]
       ELSE [d EXCEPT !.ret = RetNone, !.event = ev("flush_none")]

\* VADDetector.flush
FlushD(d, cfg, labels) ==
    IF RunLen(d.audio_buffer) > 0
    THEN LET min_size == FrameSizeSamples(cfg)
             padded == IF RunLen(d.audio_buffer) < min_size
                       THEN RunPad(d.audio_buffer, min_size - RunLen(d.audio_buffer))
                       ELSE d.audio_buffer
             r == ProcessAudioBuffer([d EXCEPT !.audio_buffer = padded], cfg, labels)
         IN IF r.ret.kind = "segment" /\ Len(r.ret.seg) > 0
            THEN r
            ELSE FlushTail(r, cfg)
    ELSE FlushTail(d, cfg)

\* Byte lengths of the PCM payloads the model feeds, in quarters of
\* self.frame_size_bytes (half a frame, one frame, one and a half, two and a half),
\* and one payload that is not a whole number of 16-bit samples.
ChunkByteLens(cfg) ==
    LET q == FrameSizeSamples(cfg) \div 2 IN {2 * q, 4 * q, 6 * q, 10 * q, 2 * q - 1}

TheVad == VadState(speech_buffer, silence_samples, speech_started, speech_samples,
                   audio_buffer)

\* The samples of process_chunk (not padding) in the frames of one call
RECURSIVE RealSamples(_)
RealSamples(frames) ==
    IF frames = <<>> THEN 0 ELSE Head(frames).frame.len + RealSamples(Tail(frames))

SetVad(d, op) ==
    /\ speech_buffer' = d.speech_buffer
    /\ silence_samples' = d.silence_samples
    /\ speech_started' = d.speech_started
    /\ speech_samples' = d.speech_samples
    /\ audio_buffer' = d.audio_buffer
    /\ vad_frames' = d.frames
    /\ vad_fed' = vad_fed + RealSamples(d.frames)
    /\ vad_calls' = vad_calls + Len(d.frames)
    /\ vad_ret' = [d.ret EXCEPT !.kind = @] @@ [op |-> op]
    /\ vad_event' = d.event

NoExample == [speech_ms |-> 0, silence_ms |-> 0]

VadInit ==
    /\ vad_cfg \in VadConfigs
    /\ speech_buffer = <<>>
    /\ silence_samples = 0
    /\ speech_started = FALSE
    /\ speech_samples = 0
    /\ audio_buffer = EmptyRun
    /\ vad_in = 0
    /\ vad_frames = <<>>
    /\ vad_fed = 0
    /\ vad_calls = 0
    /\ vad_ret = RetNone @@ [op |-> "init"]
    /\ vad_event = NoEvent
    /\ ex_case = NoExample
    /\ ex_segments = <<>>

\* Constructor arguments for the size computations: every frame duration up to the
\* bound, and durations of 0 ms, 1 ms, the ones of the model and the ones of main.py.
VadConstructorArgs ==
    [sample_rate : SampleRates, frame_duration_ms : 0..MaxFrameDurationMs,
     silence_duration_ms : {0, 1, 64, 1500},
     min_speech_duration_ms : {0, 1, 32, 500}]

\* VADDetector(sample_rate, frame_duration_ms, silence_duration_ms,
\* min_speech_duration_ms): a new detector; its sizes are the operators above on cfg
VadConstruct ==
    \E cfg \in VadConstructorArgs :
      /\ vad_cfg' = cfg
      /\ speech_buffer' = <<>>
      /\ silence_samples' = 0
      /\ speech_started' = FALSE
      /\ speech_samples' = 0
      /\ audio_buffer' = EmptyRun
      /\ vad_in' = 0
      /\ vad_frames' = <<>>
      /\ vad_fed' = 0
      /\ vad_calls' = 0
      /\ vad_ret' = RetNone @@ [op |-> "construct"]
      /\ vad_event' = NoEvent
      /\ UNCHANGED <<ex_case, ex_segments>>

\* vad.process_chunk(audio_chunk) with a payload of nbytes bytes
VadProcessChunk ==
    \E nbytes \in ChunkByteLens(vad_cfg) :
      /\ nbytes % 2 = 0
      /\ vad_in + nbytes \div 2 <= MaxVadFrames * FrameSizeSamples(vad_cfg)
      /\ vad_calls + (RunLen(audio_buffer) + nbytes \div 2)
            \div FrameSizeSamples(vad_cfg) <= MaxVadFrames
      /\ LET nsamples == nbytes \div 2
             k == (RunLen(audio_buffer) + nsamples) \div FrameSizeSamples(vad_cfg)
         IN \E labels \in [1..k -> Labels] :
              /\ SetVad(ProcessChunkD(TheVad, vad_cfg, nsamples, vad_in, labels),
                        "process_chunk")
              /\ vad_in' = vad_in + nsamples
      /\ UNCHANGED <<vad_cfg, ex_case, ex_segments>>

\* np.frombuffer raises ValueError on a payload that is not a whole number of samples
VadProcessChunkOdd ==
    \E nbytes \in ChunkByteLens(vad_cfg) :
      /\ nbytes % 2 # 0
      /\ vad_ret' = RetRaise @@ [op |-> "process_chunk"]
      /\ vad_event' = NoEvent
      /\ vad_frames' = <<>>
      /\ UNCHANGED <<vad_cfg, speech_buffer, silence_samples, speech_started,
                     speech_samples, audio_buffer, vad_in, vad_fed, vad_calls,
                     ex_case, ex_segments>>

\* vad.flush()
VadFlush ==
    /\ LET k == (RunLen(audio_buffer) + FrameSizeSamples(vad_cfg) - 1)
                 \div FrameSizeSamples(vad_cfg)
       IN /\ vad_calls + k <= MaxVadFrames
          /\ \E labels \in [1..k -> Labels] :
               SetVad(FlushD(TheVad, vad_cfg, labels), "flush")
    /\ UNCHANGED <<vad_cfg, vad_in, ex_case, ex_segments>>

\* The detector websocket_call constructs (main.py:228-234).
VadMainConfig ==
    [sample_rate |-> 16000, frame_duration_ms |-> 32, silence_duration_ms |-> 1500,
     min_speech_duration_ms |-> 500]

\* The two worked examples: speech of speech_ms, then silence of silence_ms.
VadExamples ==
    {[speech_ms |-> 600, silence_ms |-> 1600], [speech_ms |-> 200, silence_ms |-> 1600]}

\* Samples of a duration at the detector's rate.
MsSamples(cfg, ms) == (cfg.sample_rate * ms) \div 1000

ExampleSpeechSamples == MsSamples(vad_cfg, ex_case.speech_ms)
ExampleSamples == MsSamples(vad_cfg, ex_case.speech_ms + ex_case.silence_ms)

\* Sample counts of the payloads the client sends: 32, 50 and 100 ms at 16 kHz.
ExampleChunkMs == {32, 50, 100}

\* What the classifier may answer for the frame starting at sample lo: a frame of
\* speech scores at or above threshold, a frame of silence below it, and the frame
\* holding the end of the speech either way.
ExampleLabels(lo) ==
    IF lo + FrameSizeSamples(vad_cfg) <= ExampleSpeechSamples THEN {"speech"}
    ELSE IF lo >= ExampleSpeechSamples THEN {"silence"}
    ELSE {"speech", "silence"}

VadExampleInit ==
    /\ vad_cfg = VadMainConfig
    /\ speech_buffer = <<>>
    /\ silence_samples = 0
    /\ speech_started = FALSE
    /\ speech_samples = 0
    /\ audio_buffer = EmptyRun
    /\ vad_in = 0
    /\ vad_frames = <<>>
    /\ vad_fed = 0
    /\ vad_calls = 0
    /\ vad_ret = RetNone @@ [op |-> "init"]
    /\ vad_event = NoEvent
    /\ ex_case \in VadExamples
    /\ ex_segments = <<>>

\* vad.process_chunk on the next payload of the example; after the example's audio
\* the client goes on sending silence, MaxExtraSilenceChunks payloads of it.
VadExampleChunk ==
    \E ms \in ExampleChunkMs :
      LET left == ExampleSamples - vad_in
          nsamples == IF left > 0 THEN Min(MsSamples(vad_cfg, ms), left)
                      ELSE MsSamples(vad_cfg, ms)
          base == IF RunLen(audio_buffer) = 0 THEN vad_in ELSE audio_buffer.lo
          k == (RunLen(audio_buffer) + nsamples) \div FrameSizeSamples(vad_cfg)
      IN /\ vad_in + nsamples
               <= ExampleSamples + MaxExtraSilenceChunks * MsSamples(vad_cfg, 100)
         /\ \E labels \in [1..k -> Labels] :
              /\ \A j \in 1..k :
                    labels[j] \in ExampleLabels(base + (j - 1) * FrameSizeSamples(vad_cfg))
              /\ LET d == ProcessChunkD(TheVad, vad_cfg, nsamples, vad_in, labels)
                 IN /\ SetVad(d, "process_chunk")
                    /\ ex_segments' = IF d.ret.kind = "segment"
                                      THEN Append(ex_segments, d.ret.seg)
                                      ELSE ex_segments
         /\ vad_in' = vad_in + nsamples
         /\ UNCHANGED <<vad_cfg, ex_case>>

(***************************************************************************)
(* Text: a string is the sequence of its characters.                       *)
(***************************************************************************)
WhitespaceChars == {" ", "\t", "\n"}
TerminalChars == {".", "!", "?"}

RECURSIVE LStrip(_)
LStrip(s) ==
    IF s # <<>> /\ Head(s) \in WhitespaceChars THEN LStrip(Tail(s)) ELSE s

RECURSIVE RStrip(_)
RStrip(s) ==
    IF s # <<>> /\ s[Len(s)] \in WhitespaceChars
    THEN RStrip(SubSeq(s, 1, Len(s) - 1)) ELSE s

\* str.strip()
Strip(s) == RStrip(LStrip(s))

\* the longest prefix of s made of characters of cls
RECURSIVE Span(_, _)
Span(s, cls) ==
    IF s # <<>> /\ Head(s) \in cls THEN <<Head(s)>> \o Span(Tail(s), cls) ELSE <<>>

DropN(s, n) == SubSeq(s, n + 1, Len(s))

\* re.split(r'([.!?]+)\s*', text): the text between the matches and, for each match,
\* its group (the run of terminal punctuation); the whitespace after it is consumed.
RECURSIVE ReSplit(_, _)
ReSplit(rest, cur) ==
    IF rest = <<>> THEN <<cur>>
    ELSE IF Head(rest) \in TerminalChars
         THEN LET punct == Span(rest, TerminalChars)
                  after == DropN(rest, Len(punct))
                  ws == Span(after, WhitespaceChars)
              IN <<cur, punct>> \o ReSplit(DropN(after, Len(ws)), <<>>)
         ELSE ReSplit(Tail(rest), Append(cur, Head(rest)))

\* the while loop of split_into_sentences (utils.py 24-37); i is 1-based here
RECURSIVE Recombine(_, _)
Recombine(parts, i) ==
    IF i > Len(parts) THEN <<>>
    ELSE IF i + 1 <= Len(parts) /\ Strip(parts[i + 1]) # <<>>
         THEN LET sentence == parts[i] \o parts[i + 1] IN
              (IF Strip(sentence) # <<>> THEN <<Strip(sentence)>> ELSE <<>>)
                \o Recombine(parts, i + 2)
         ELSE (IF Strip(parts[i]) # <<>> THEN <<Strip(parts[i])>> ELSE <<>>)
                \o Recombine(parts, i + 1)

\* split_into_sentences
split_into_sentences(text) ==
    SelectSeq(Recombine(ReSplit(text, <<>>), 1), LAMBDA x : x # <<>>)

\* re.search(r'[.!?]+$', s) on a stripped sentence
EndsWithTerminal(s) == s # <<>> /\ s[Len(s)] \in TerminalChars

\* extract_complete_sentences: [sentences, remaining]
extract_complete_sentences(text) ==
    LET sentences == split_into_sentences(text) IN
    IF sentences # <<>> /\ ~EndsWithTerminal(sentences[Len(sentences)])
    THEN [sentences |-> SubSeq(sentences, 1, Len(sentences) - 1),
          remaining |-> sentences[Len(sentences)]]
    ELSE [sentences |-> sentences, remaining |-> <<>>]

RECURSIVE Flatten(_)
Flatten(ss) == IF ss = <<>> THEN <<>> ELSE Head(ss) \o Flatten(Tail(ss))

(***************************************************************************)
(* Orchestrator.process_streaming from the "responding" status on, one     *)
(* step per await.  Letters stand for themselves only: the example of the  *)
(* specification is written in Latin transliteration.                      *)
(***************************************************************************)
DeltaPrivet == <<"P", "r", "i", "v", "e", "t">>
DeltaKak == <<",", " ", "k", "a", "k", " ">>
DeltaDela == <<"d", "e", "l", "a", "?">>
DeltaSpasibo == <<" ", "S", "p", "a", "s", "i", "b", "o", ".">>
ExampleDeltas == <<DeltaPrivet, DeltaKak, DeltaDela, DeltaSpasibo>>

\* The text chunks the generation stream may yield.
Deltas == {DeltaPrivet, DeltaKak, DeltaDela, DeltaSpasibo, <<"a", ".">>, <<" ">>}

NoSentence == [k |-> 0, text |-> <<>>]

\* WS_RE.sub(" ", text): every run of whitespace becomes one space
RECURSIVE CollapseWs(_)
CollapseWs(s) ==
    IF s = <<>> THEN <<>>
    ELSE IF Head(s) \in WhitespaceChars
         THEN <<" ">> \o CollapseWs(DropN(s, Len(Span(s, WhitespaceChars))))
         ELSE <<Head(s)>> \o CollapseWs(Tail(s))

\* BULLET_RE.sub("", text): leading whitespace, bullet characters, whitespace
BulletChars == {"-", "*"}
StripBullet(s) ==
    LET t == LStrip(s) IN
    IF Span(t, BulletChars) = <<>> THEN s
    ELSE LStrip(DropN(t, Len(Span(t, BulletChars))))

\* normalize_text_line: line breaks to spaces, whitespace collapsed, stripped (the
\* typographic quotes and dashes it replaces are not in the alphabet of Deltas)
normalize_text_line(text) == Strip(CollapseWs(text))

\* clean_reply defaults
ReplyMaxSentences == 5
ReplyMaxChars == 320

\* " ".join(re.split(r"(?<=[.!?])\s+", text)[:n]) on a text whose whitespace is
\* collapsed: the text up to the n-th space that follows terminal punctuation
RECURSIVE FirstSentences(_, _, _)
FirstSentences(text, i, n) ==
    IF i > Len(text) THEN text
    ELSE IF text[i] = " " /\ i > 1 /\ text[i - 1] \in TerminalChars
         THEN IF n = 1 THEN SubSeq(text, 1, i - 1)
              ELSE FirstSentences(text, i + 1, n - 1)
         ELSE FirstSentences(text, i + 1, n)

\* 1-based index of the last terminal punctuation of s, 0 if there is none
LastTerminal(s) ==
    LET I == {i \in DOMAIN s : s[i] \in TerminalChars}
    IN IF I = {} THEN 0 ELSE CHOOSE i \in I : \A j \in I : j <= i

\* _trim_to_sentence_boundary
trim_to_sentence_boundary(text, max_chars) ==
    IF text = <<>> \/ max_chars <= 0 THEN <<>>
    ELSE IF Len(text) <= max_chars THEN text
    ELSE LET cut == RStrip(SubSeq(text, 1, max_chars))
             last_end == LastTerminal(cut) - 1
         IN IF last_end >= Max(0, (max_chars * 55) \div 100)
            THEN Strip(SubSeq(cut, 1, last_end + 1))
            ELSE Strip(cut)

\* clean_reply(raw) with its default limits.  ROLE_PREFIX_RE and ALLOWED_BASIC_RE
\* change nothing in a text over the alphabet of Deltas (no role name, only
\* letters, basic punctuation and spaces).
clean_reply(raw) ==
    IF raw = <<>> THEN <<>>
    ELSE LET text == Strip(CollapseWs(normalize_text_line(StripBullet(Strip(raw)))))
         IN IF text = <<>> THEN <<>>
            ELSE trim_to_sentence_boundary(
                     Strip(FirstSentences(text, 1, ReplyMaxSentences)), ReplyMaxChars)

TurnInit ==
    /\ t_pc = "start"
    /\ raw_response = <<>>
    /\ sentence_buffer = <<>>
    /\ processed_sentences = {}
    /\ t_queue = <<>>
    /\ t_remaining = <<>>
    /\ t_cur = NoSentence
    /\ t_deltas = <<>>
    /\ t_units = <<>>
    /\ t_log = <<>>
    /\ ws_out = <<>>
    /\ t_gen = "running"

Msg(type, text) == [type |-> type, text |-> text]
Ev(e, k) == [e |-> e, k |-> k]

\* lines 165-176: the "responding" status; a failed send ends the turn in the outer
\* handler (278-291)
TurnStart ==
    /\ UNCHANGED t_gen
    /\ t_pc = "start"
    /\ \E ok \in BOOLEAN :
         IF ok THEN /\ ws_out' = Append(ws_out, Msg("status", <<>>))
                    /\ t_pc' = "stream"
         ELSE /\ ws_out' = ws_out
              /\ t_pc' = "failed"
    /\ UNCHANGED <<raw_response, sentence_buffer, processed_sentences, t_queue,
                   t_remaining, t_cur, t_deltas, t_units, t_log>>

\* lines 179-190: the stream yields text_chunk
OnTextChunk(text_chunk) ==
    LET r == extract_complete_sentences(sentence_buffer \o text_chunk) IN
    /\ raw_response' = raw_response \o text_chunk
    /\ sentence_buffer' = sentence_buffer \o text_chunk
    /\ t_queue' = r.sentences
    /\ t_remaining' = r.remaining
    /\ t_units' = t_units \o r.sentences
    /\ t_deltas' = Append(t_deltas, text_chunk)
    /\ t_pc' = "sentences"
    /\ UNCHANGED <<processed_sentences, t_cur, t_log, ws_out>>

TurnDelta ==
    /\ t_pc = "stream"
    /\ t_gen = "running"
    /\ UNCHANGED t_gen
    /\ Len(t_deltas) < MaxDeltas
    /\ \E text_chunk \in Deltas : OnTextChunk(text_chunk)

\* the stream yields the next text chunk of ExampleDeltas
TurnExampleDelta ==
    /\ t_pc = "stream"
    /\ t_gen = "running"
    /\ UNCHANGED t_gen
    /\ Len(t_deltas) < Len(ExampleDeltas)
    /\ OnTextChunk(ExampleDeltas[Len(t_deltas) + 1])

\* llm.py 147-149: the generation call raises; generate_response_stream yields its
\* apology as one more text chunk and ends ("Izvinite." stands for the sentence
\* "Извините, произошла ошибка при генерации ответа.")
DeltaApology == <<"I", "z", "v", "i", "n", "i", "t", "e", ".">>

TurnGenerationError ==
    /\ t_pc = "stream"
    /\ t_gen = "running"
    /\ t_gen' = "failed"
    /\ OnTextChunk(DeltaApology)

\* Mutant of NeedsSynthesis: every non-empty sentence is synthesized.
NeedsSynthesisAlways(sentence, processed) == sentence # <<>>

\* line 194 / lines 224-225: if sentence and sentence not in processed_sentences
NeedsSynthesis(sentence, processed) == sentence # <<>> /\ sentence \notin processed

\* lines 193-201: the for loop takes the next sentence and calls tts.synthesize
TurnNextSentence ==
    /\ UNCHANGED t_gen
    /\ t_pc = "sentences"
    /\ t_queue # <<>>
    /\ LET sentence == Head(t_queue)
           k == Len(t_units) - Len(t_queue) + 1
       IN IF NeedsSynthesis(sentence, processed_sentences)
          THEN /\ t_cur' = [k |-> k, text |-> sentence]
               /\ t_log' = Append(t_log, Ev("synth", k))
               /\ t_pc' = "synth"
          ELSE /\ t_cur' = t_cur
               /\ t_log' = Append(t_log, Ev("skip", k))
               /\ t_pc' = "sentences"
    /\ t_queue' = Tail(t_queue)
    /\ UNCHANGED <<raw_response, sentence_buffer, processed_sentences, t_remaining,
                   t_deltas, t_units, ws_out>>

\* Mutant of AfterSynthesis: the audio is not sent before the loop goes on.
AfterSynthesisDeferred(pc) == IF pc = "synth" THEN "sentences" ELSE "complete"

\* Mutant of AfterSynthesis: the audio of the final residual is not sent.
AfterSynthesisFinalDropped(pc) == IF pc = "synth" THEN "send" ELSE "complete"

\* lines 198-211 and 228-239: the send of the audio follows the awaited synthesis
AfterSynthesis(pc) == IF pc = "synth" THEN "send" ELSE "final_send"

\* Mutant of AfterSynthesisError: a failed synthesis ends the turn.
AfterSynthesisErrorAborts(pc) == "failed"

\* lines 215-216 and 240-241: the exception is logged and the loop goes on
AfterSynthesisError(pc) == IF pc = "synth" THEN "sentences" ELSE "complete"

\* lines 198-216 and 228-241: tts.synthesize returns or raises
TurnSynthReturn ==
    /\ UNCHANGED t_gen
    /\ t_pc \in {"synth", "final_synth"}
    /\ \E ok \in BOOLEAN :
         IF ok THEN /\ t_pc' = AfterSynthesis(t_pc)
                    /\ t_log' = Append(t_log, Ev("audio_ready", t_cur.k))
                    /\ t_cur' = t_cur
         ELSE /\ t_pc' = AfterSynthesisError(t_pc)
              /\ t_log' = Append(t_log, Ev("synth_failed", t_cur.k))
              /\ t_cur' = NoSentence
    /\ UNCHANGED <<raw_response, sentence_buffer, processed_sentences, t_queue,
                   t_remaining, t_deltas, t_units, ws_out>>

\* lines 207-216 and 235-241: the audio_chunk message; a failed send is caught by
\* the same handler as a failed synthesis
TurnSendAudio ==
    /\ UNCHANGED t_gen
    /\ t_pc \in {"send", "final_send"}
    /\ \E ok \in BOOLEAN :
         IF ok THEN /\ ws_out' = Append(ws_out, Msg("audio_chunk", t_cur.text))
                    /\ t_log' = Append(t_log, Ev("audio", t_cur.k))
                    /\ processed_sentences' =
                         IF t_pc = "send" THEN processed_sentences \cup {t_cur.text}
                         ELSE processed_sentences
         ELSE /\ ws_out' = ws_out
              /\ t_log' = Append(t_log, Ev("send_failed", t_cur.k))
              /\ processed_sentences' = processed_sentences
    /\ t_pc' = IF t_pc = "send" THEN "sentences" ELSE "complete"
    /\ t_cur' = NoSentence
    /\ UNCHANGED <<raw_response, sentence_buffer, t_queue, t_remaining, t_deltas,
                   t_units>>

\* line 219: sentence_buffer = remaining, after the for loop
TurnLoopEnd ==
    /\ UNCHANGED t_gen
    /\ t_pc = "sentences"
    /\ t_queue = <<>>
    /\ sentence_buffer' = t_remaining
    /\ t_remaining' = <<>>
    /\ t_pc' = "stream"
    /\ UNCHANGED <<raw_response, processed_sentences, t_queue, t_cur, t_deltas,
                   t_units, t_log, ws_out>>

\* lines 221-231: the stream has ended; the rest of the buffer is synthesized
TurnStreamEnd ==
    /\ UNCHANGED t_gen
    /\ t_pc = "stream"
    /\ LET final == Strip(sentence_buffer)
           k == Len(t_units) + 1
       IN IF final # <<>> /\ NeedsSynthesis(final, processed_sentences)
          THEN /\ t_cur' = [k |-> k, text |-> final]
               /\ t_log' = Append(t_log, Ev("synth", k))
               /\ t_pc' = "final_synth"
          ELSE /\ t_cur' = t_cur
               /\ t_log' = t_log
               /\ t_pc' = "complete"
    /\ UNCHANGED <<raw_response, sentence_buffer, processed_sentences, t_queue,
                   t_remaining, t_deltas, t_units, ws_out>>

\* lines 243-263: response_complete; a failed send goes to the outer handler
TurnComplete ==
    /\ UNCHANGED t_gen
    /\ t_pc = "complete"
    /\ \E ok \in BOOLEAN :
         IF ok THEN /\ ws_out' = Append(ws_out,
                                           Msg("response_complete", clean_reply(raw_response)))
                    /\ t_pc' = "done"
         ELSE /\ ws_out' = ws_out
              /\ t_pc' = "failed"
    /\ UNCHANGED <<raw_response, sentence_buffer, processed_sentences, t_queue,
                   t_remaining, t_cur, t_deltas, t_units, t_log>>

(***************************************************************************)
(* STT: the streaming sessions of the transcription service.  Its methods  *)
(* contain no await, so each runs as one step.  The recognizer's answers   *)
(* (phrases, or an exception) are inputs; its continuation state is opaque:*)
(* "None" before the first forward, "state" after.                         *)
(***************************************************************************)
Sessions == {"s1", "s2"}

RequiredChunkSize == 2400

NoStream == [exists |-> FALSE]

\* StreamingState(pipeline_state=None)
NewStream ==
    [exists |-> TRUE, pipeline_state |-> "None", all_phrases |-> <<>>,
     audio_buffer |-> EmptyRun, partial_text |-> <<>>, finalized |-> FALSE]

\* What one recognizer call answers: the texts of the phrases, or it raises.
PhraseLists == {<<>>, << <<"a">> >>, << <<"b">>, <<>> >>}
RecognizerAnswers ==
    {[ok |-> FALSE, phrases |-> <<>>]} \cup [ok : {TRUE}, phrases : PhraseLists]

\* " ".join(transcription_parts)
RECURSIVE JoinSpace(_)
JoinSpace(parts) ==
    IF parts = <<>> THEN <<>>
    ELSE IF Len(parts) = 1 THEN parts[1]
    ELSE parts[1] \o <<" ">> \o JoinSpace(Tail(parts))

\* " ".join(phrase.text for phrase in all_phrases).strip()
Transcription(all_phrases) == Strip(JoinSpace(all_phrases))

\* Mutant of ExtendPhrases: the new phrases replace the accumulated ones.
ExtendPhrasesReplacing(all_phrases, new_phrases) == new_phrases

\* all_phrases.extend(new_phrases)
ExtendPhrases(all_phrases, new_phrases) == all_phrases \o new_phrases

SttText(text, path) == [kind |-> "text", text |-> text, path |-> path]
SttRaise(path) == [kind |-> "raise", text |-> <<>>, path |-> path]
SttDone(path) == [kind |-> "none", text |-> <<>>, path |-> path]

\* lines 211-229: the while loop of process_chunk; answers are the recognizer's
\* answers to the forward calls, in order
RECURSIVE ForwardLoop(_, _, _)
ForwardLoop(st, answers, frames) ==
    IF RunLen(st.audio_buffer) < RequiredChunkSize
    THEN [st |-> st, raised |-> FALSE, frames |-> frames]
    ELSE LET chunk_to_process == RunTake(st.audio_buffer, RequiredChunkSize)
             st1 == [st EXCEPT !.audio_buffer = RunDrop(@, RequiredChunkSize)]
             a == Head(answers)
         IN IF ~a.ok
            THEN [st |-> st1, raised |-> TRUE, frames |-> Append(frames, chunk_to_process)]
            ELSE ForwardLoop([st1 EXCEPT !.pipeline_state = "state",
                                         !.all_phrases = ExtendPhrases(@, a.phrases)],
                             Tail(answers), Append(frames, chunk_to_process))

\* lines 169 and 175: the warning process_chunk logs about the stream it finds
StreamWarning(st) ==
    IF ~st.exists THEN "not_found" ELSE IF st.finalized THEN "finalized" ELSE "none"

\* Mutant of StreamForChunk: a finalized stream is reopened with what it holds.
StreamForChunkReopening(st) ==
    IF ~st.exists THEN NewStream ELSE [st EXCEPT !.finalized = FALSE]

\* lines 168-178: the stream process_chunk works on
StreamForChunk(st) == IF ~st.exists \/ st.finalized THEN NewStream ELSE st

\* lines 180-270 of process_chunk on an existing, not finalized stream: nsamples
\* decoded samples arriving with ordinals at ..; decoded tells the payload decoded
ProcessChunkS(st, decoded, nsamples, at, answers) ==
    IF ~decoded THEN [st |-> st, ret |-> SttRaise("decode"), frames |-> <<>>]
    ELSE LET r == ForwardLoop([st EXCEPT !.audio_buffer = RunAppend(@, nsamples, at)],
                              answers, <<>>)
             partial_transcription == Transcription(r.st.all_phrases)
         IN IF r.raised
            THEN [st |-> r.st, ret |-> SttRaise("forward"), frames |-> r.frames]
            ELSE [st |-> [r.st EXCEPT !.partial_text = partial_transcription],
                  ret |-> SttText(partial_transcription, "partial"),
                  frames |-> r.frames]

\* lines 296-361 of finalize_stream on a stream that is not finalized; fwd and fin
\* are the recognizer's answers to forward and to finalize
FinalizeOpen(st, fwd, fin) ==
    LET padded == IF RunLen(st.audio_buffer) > 0
                     /\ RunLen(st.audio_buffer) < RequiredChunkSize
                  THEN RunPad(st.audio_buffer, RequiredChunkSize - RunLen(st.audio_buffer))
                  ELSE st.audio_buffer
        st1 == [st EXCEPT !.audio_buffer = padded]
        calls == RunLen(st.audio_buffer) > 0 /\ RunLen(padded) >= RequiredChunkSize
        frames == IF calls THEN <<RunTake(padded, RequiredChunkSize)>> ELSE <<>>
        st2 == IF calls
               THEN [st1 EXCEPT !.pipeline_state = "state",
                                !.all_phrases = ExtendPhrases(@, fwd.phrases)]
               ELSE st1
    IN IF calls /\ ~fwd.ok
       THEN [st |-> st1, ret |-> SttRaise("forward"), frames |-> frames, nfin |-> 0]
       ELSE IF st2.pipeline_state # "None"
       THEN IF ~fin.ok
            THEN [st |-> st2, ret |-> SttRaise("finalize"), frames |-> frames, nfin |-> 1]
            ELSE LET all == ExtendPhrases(st2.all_phrases, fin.phrases)
                     final_transcription == Transcription(all)
                 IN [st |-> [st2 EXCEPT !.all_phrases = all,
                                        !.partial_text = final_transcription,
                                        !.finalized = TRUE],
                     ret |-> SttText(final_transcription, "finalized"),
                     frames |-> frames, nfin |-> 1]
       ELSE [st |-> [st2 EXCEPT !.finalized = TRUE],
             ret |-> SttText(st2.partial_text, "no_state"),
             frames |-> frames, nfin |-> 0]

\* lines 292-294: finalize_stream on a finalized stream
FinalizeFinalized(st, fwd, fin) ==
    [st |-> st, ret |-> SttText(st.partial_text, "already_finalized"),
     frames |-> <<>>, nfin |-> 0]

\* Nothing forwarded or recognized yet on a stream created when the session had
\* received `base` samples.
NewHist(base) == [base |-> base, frames |-> <<>>, heard |-> <<>>, failed |-> FALSE]

\* The phrases of the first n of the recognizer's answers that did not raise.
RECURSIVE HeardOf(_, _)
HeardOf(answers, n) ==
    IF n = 0 \/ answers = <<>> THEN <<>>
    ELSE (IF Head(answers).ok THEN Head(answers).phrases ELSE <<>>)
         \o HeardOf(Tail(answers), n - 1)

SttInit ==
    /\ streams = [s \in Sessions |-> NoStream]
    /\ stt_in = [s \in Sessions |-> 0]
    /\ stt_last = [s \in Sessions |-> <<>>]
    /\ stt_nfinalize = 0
    /\ stt_ncalls = 0
    /\ stt_frames = <<>>
    /\ stt_ret = SttDone("init") @@ [op |-> "init", sid |-> "s1"]
    /\ stt_warn = "none"
    /\ stt_hist = [s \in Sessions |-> NewHist(0)]

SttOp(op, sid, ret) == ret @@ [op |-> op, sid |-> sid]

\* Mutant of SttStartStream: every session gets a new stream.
SttStartStreamAll(session_id) ==
    /\ streams' = [s \in Sessions |-> NewStream]
    /\ stt_last' = [stt_last EXCEPT ![session_id] = <<>>]
    /\ stt_frames' = <<>>
    /\ stt_nfinalize' = 0
    /\ stt_ret' = SttOp("start_stream", session_id, SttDone("started"))
    /\ stt_warn' = "none"
    /\ stt_hist' = [stt_hist EXCEPT ![session_id] = NewHist(stt_in[session_id])]
    /\ UNCHANGED <<stt_in, stt_ncalls>>

\* STT.start_stream(session_id)
SttStartStream(session_id) ==
    /\ streams' = [streams EXCEPT ![session_id] = NewStream]
    /\ stt_last' = [stt_last EXCEPT ![session_id] = <<>>]
    /\ stt_frames' = <<>>
    /\ stt_nfinalize' = 0
    /\ stt_ret' = SttOp("start_stream", session_id, SttDone("started"))
    /\ stt_warn' = "none"
    /\ stt_hist' = [stt_hist EXCEPT ![session_id] = NewHist(stt_in[session_id])]
    /\ UNCHANGED <<stt_in, stt_ncalls>>

\* Decoded sample counts of the payloads the model feeds: half a recognizer frame,
\* one frame, one frame and a half.
SttChunkSamples ==
    {RequiredChunkSize \div 2, RequiredChunkSize, RequiredChunkSize + RequiredChunkSize \div 2}

RECURSIVE SumOver(_, _)
SumOver(f, S) ==
    IF S = {} THEN 0 ELSE LET x == CHOOSE y \in S : TRUE IN f[x] + SumOver(f, S \ {x})

SttSamplesIn == SumOver(stt_in, Sessions)

\* The answers drawn for n recognizer calls.
AnswersFor(n) == [1..n -> RecognizerAnswers]

\* STT.process_chunk(session_id, audio_chunk_base64)
SttProcessChunk(session_id) ==
    \E nsamples \in SttChunkSamples, decoded \in BOOLEAN :
      LET st == StreamForChunk(streams[session_id])
          k == IF decoded
               THEN (RunLen(st.audio_buffer) + nsamples) \div RequiredChunkSize
               ELSE 0
      IN /\ SttSamplesIn + nsamples <= MaxSttFrames * RequiredChunkSize
         /\ stt_ncalls + k <= MaxSttCalls
         /\ \E answers \in AnswersFor(k) :
              LET r == ProcessChunkS(st, decoded, nsamples, stt_in[session_id], answers)
              IN /\ streams' = [streams EXCEPT ![session_id] = r.st]
                 /\ stt_in' = [stt_in EXCEPT ![session_id] =
                                  IF decoded THEN @ + nsamples ELSE @]
                 /\ stt_last' = [stt_last EXCEPT ![session_id] =
                                    IF r.ret.kind = "text" THEN r.ret.text
                                    ELSE IF st = NewStream THEN <<>> ELSE @]
                 /\ stt_frames' = r.frames
                 /\ stt_nfinalize' = 0
                 /\ stt_ncalls' = stt_ncalls + Len(r.frames)
                 /\ stt_ret' = SttOp("process_chunk", session_id, r.ret)
                 /\ stt_warn' = StreamWarning(streams[session_id])
                 /\ stt_hist' = [stt_hist EXCEPT ![session_id] =
                       LET h == IF StreamWarning(streams[session_id]) = "none" THEN @
                                ELSE NewHist(stt_in[session_id])
                       IN [h EXCEPT !.frames = @ \o r.frames,
                                    !.heard = @ \o HeardOf(answers, Len(r.frames)),
                                    !.failed = @ \/ r.ret.path = "forward"]]

\* STT.finalize_stream(session_id)
SttFinalizeStream(session_id) ==
    LET st == streams[session_id] IN
    IF ~st.exists
    THEN /\ stt_ret' = SttOp("finalize_stream", session_id, SttText(<<>>, "not_found"))
         /\ stt_frames' = <<>>
         /\ stt_nfinalize' = 0
         /\ stt_warn' = "none"
         /\ UNCHANGED <<streams, stt_in, stt_last, stt_ncalls, stt_hist>>
    ELSE \E fwd \in AnswersFor(IF ~st.finalized /\ RunLen(st.audio_buffer) > 0
                                THEN 1 ELSE 0),
            fin \in AnswersFor(IF st.finalized THEN 0 ELSE 1) :
           LET none == [ok |-> FALSE, phrases |-> <<>>]
               a == IF fwd = <<>> THEN none ELSE fwd[1]
               b == IF fin = <<>> THEN none ELSE fin[1]
               r == IF st.finalized THEN FinalizeFinalized(st, a, b)
                    ELSE FinalizeOpen(st, a, b)
           IN /\ stt_ncalls + Len(r.frames) + r.nfin <= MaxSttCalls
              /\ stt_ncalls' = stt_ncalls + Len(r.frames) + r.nfin
              /\ streams' = [streams EXCEPT ![session_id] = r.st]
              /\ stt_last' = [stt_last EXCEPT ![session_id] =
                                 IF r.ret.kind = "text" THEN r.ret.text ELSE @]
              /\ stt_frames' = r.frames
              /\ stt_nfinalize' = r.nfin
              /\ stt_ret' = SttOp("finalize_stream", session_id, r.ret)
              /\ stt_warn' = "none"
              /\ stt_hist' = [stt_hist EXCEPT ![session_id] =
                    [@ EXCEPT !.frames = @ \o r.frames,
                              !.heard = @ \o HeardOf(<<a>>, Len(r.frames))
                                          \o HeardOf(<<b>>, r.nfin),
                              !.failed = @ \/ r.ret.kind = "raise"]]
              /\ UNCHANGED stt_in

\* Mutant of SttResetStream: the session is left with an emptied stream.
SttResetStreamEmptying(session_id) ==
    /\ streams' = [streams EXCEPT ![session_id] = NewStream]
    /\ stt_last' = [stt_last EXCEPT ![session_id] = <<>>]
    /\ stt_frames' = <<>>
    /\ stt_nfinalize' = 0
    /\ stt_ret' = SttOp("reset_stream", session_id, SttDone("reset"))
    /\ stt_warn' = "none"
    /\ stt_hist' = [stt_hist EXCEPT ![session_id] = NewHist(stt_in[session_id])]
    /\ UNCHANGED <<stt_in, stt_ncalls>>

\* STT.reset_stream(session_id)
SttResetStream(session_id) ==
    /\ streams' = [streams EXCEPT ![session_id] = NoStream]
    /\ stt_last' = [stt_last EXCEPT ![session_id] = <<>>]
    /\ stt_frames' = <<>>
    /\ stt_nfinalize' = 0
    /\ stt_ret' = SttOp("reset_stream", session_id, SttDone("reset"))
    /\ stt_warn' = "none"
    /\ stt_hist' = [stt_hist EXCEPT ![session_id] = NewHist(stt_in[session_id])]
    /\ UNCHANGED <<stt_in, stt_ncalls>>

(***************************************************************************)
(* websocket_call (backend/main.py): one handler coroutine per connection. *)
(* The handlers of several connections interleave at their awaits.  The    *)
(* detector's verdict on a chunk, the recognizer's output and a turn's     *)
(* sentences are inputs here: the verdict is "none", "segment" or "raise", *)
(* a transcription is empty or not, a turn is its number of sentences.     *)
(***************************************************************************)
Conns == {"c1", "c2"}

\* session_manager.get_session finds the sessions a training was started for.
KnownSessions == {"s1"}

\* A stream of the service as the handler sees it: whether it exists, is finalized,
\* has received audio, and has a non-empty text.
CsNone == [exists |-> FALSE, finalized |-> FALSE, audio |-> FALSE, text |-> FALSE]

\* STT.start_stream: a new StreamingState, with no text
CsFresh == [exists |-> TRUE, finalized |-> FALSE, audio |-> FALSE, text |-> FALSE]

\* STTClient.start_stream: the service replaces the stream, or the call raises.
CsStartResults(st) ==
    {[ok |-> TRUE, st |-> CsFresh], [ok |-> FALSE, st |-> st]}

\* STTClient.process_chunk: the call raises, or the service extends the stream's
\* text (restarting a missing or finalized stream) and returns it.
CsProcessChunkResults(st) ==
    LET base == IF st.exists /\ ~st.finalized THEN st ELSE CsFresh
    IN {[ret |-> "raise", text |-> FALSE, st |-> st]}
       \cup {[ret |-> "text", text |-> base.text \/ n,
              st |-> [base EXCEPT !.audio = TRUE, !.text = @ \/ n]] : n \in BOOLEAN}

\* STTClient.finalize_stream: the call raises, or the service returns "" for a
\* missing stream, the stored text for a finalized one, and otherwise finalizes.
CsFinalizeResults(st) ==
    {[ret |-> "raise", text |-> FALSE, st |-> st]}
    \cup IF ~st.exists THEN {[ret |-> "text", text |-> FALSE, st |-> st]}
         ELSE IF st.finalized THEN {[ret |-> "text", text |-> st.text, st |-> st]}
         ELSE {[ret |-> "text", text |-> st.text \/ n,
                st |-> [st EXCEPT !.finalized = TRUE, !.text = @ \/ n]] :
                   n \in (IF st.audio THEN BOOLEAN ELSE {FALSE})}

\* STTClient.reset_stream: best effort, an error is swallowed.
CsResetResults(st) == {CsNone, st}

\* reset_stream then start_stream inside "try: ... except: pass"
CsRecoverResults(st) ==
    UNION {{x.st : x \in CsStartResults(r)} : r \in CsResetResults(st)}

\* No audio_chunk message was handled in the last step.
NoFeed == [conn |-> "none", ord |-> 0, calls |-> <<>>]

\* Mutant of FeedCalls: the detector is called only when the transcriber returned.
FeedCallsSttFirst(stt_ok, vad_ok) ==
    IF stt_ok THEN <<[to |-> "stt", ok |-> stt_ok], [to |-> "vad", ok |-> vad_ok]>>
    ELSE <<[to |-> "stt", ok |-> stt_ok]>>

\* main.py 319-330: stt.process_chunk inside try/except, then vad.process_chunk
FeedCalls(stt_ok, vad_ok) ==
    <<[to |-> "stt", ok |-> stt_ok], [to |-> "vad", ok |-> vad_ok]>>

\* process_streaming was not called in the last step.
NoBegin == [conn |-> "none", site |-> "none", text |-> FALSE]

\* A connection nothing has been decided for.
NotStarted == [known |-> FALSE, started |-> FALSE]

CallInit ==
    /\ c_pc = [c \in Conns |-> "closed"]
    /\ c_sid = [c \in Conns |-> "none"]
    /\ c_open = [c \in Conns |-> FALSE]
    /\ c_after = [c \in Conns |-> "none"]
    /\ c_left = [c \in Conns |-> 0]
    /\ c_sent = [c \in Conns |-> "none"]
    /\ call_streams = [s \in Sessions |-> CsNone]
    /\ c_chunks = 0
    /\ c_turns = 0
    /\ c_vad = [c \in Conns |-> "idle"]
    /\ c_msgs = [c \in Conns |-> <<>>]
    /\ c_start = [c \in Conns |-> NotStarted]
    /\ c_feed = NoFeed
    /\ c_begin = NoBegin
    /\ c_exit = [c \in Conns |-> "none"]

\* websocket.send_json of the messages ms, in order, on connection c
SendAll(c, ms) == c_msgs' = [c_msgs EXCEPT ![c] = @ \o ms]

\* receive_text has returned a message on connection c, which then sends ms
ReceivedThenSendAll(c, ms) == c_msgs' = [c_msgs EXCEPT ![c] = ms]

\* Mutant of TurnOpening: the status comes before the transcription.
TurnOpeningSwapped == <<"status_responding", "transcription">>

\* The call site sends "transcription" and calls process_streaming, whose first
\* message is the "responding" status.
TurnOpening == <<"transcription", "status_responding">>

\* orchestrator.process_streaming is entered from call site `after` with a
\* transcription that is empty or not (text); before are the messages the handler has
\* sent since it received the client's message.
BeginTurn(c, after, before, text) ==
    /\ c_msgs' = [c_msgs EXCEPT ![c] = before \o TurnOpening]
    /\ c_begin' = [conn |-> c, site |-> after, text |-> text]
    /\ c_turns < MaxCallTurns
    /\ c_turns' = c_turns + 1
    /\ \E n \in 0..MaxTurnSynths : c_left' = [c_left EXCEPT ![c] = n]
    /\ c_after' = [c_after EXCEPT ![c] = after]
    /\ c_sent' = [c_sent EXCEPT ![c] = "status_responding"]
    /\ c_pc' = [c_pc EXCEPT ![c] = "turn"]

\* Mutant of Admits: a failed start_stream is passed over.
AdmitsIgnoringStart(known, started) == known

\* The handler goes on to "connected" and the receive loop when neither of the two
\* early returns was taken.
Admits(known, started) == known /\ started

\* accept, session lookup, stt.start_stream, "connected"
CallConnect(c) ==
    /\ c_pc[c] = "closed"
    /\ \E sid \in Sessions :
         LET known == sid \in KnownSessions
             starts == IF known THEN CsStartResults(call_streams[sid])
                       ELSE {[ok |-> FALSE, st |-> call_streams[sid]]}
         IN /\ c_sid' = [c_sid EXCEPT ![c] = sid]
            /\ \E r \in starts :
                 /\ call_streams' = [call_streams EXCEPT ![sid] = r.st]
                 /\ c_start' = [c_start EXCEPT ![c] = [known |-> known, started |-> r.ok]]
                 /\ IF Admits(known, r.ok)
                    THEN /\ c_sent' = [c_sent EXCEPT ![c] = "connected"]
                         /\ c_pc' = [c_pc EXCEPT ![c] = "loop"]
                         /\ c_open' = [c_open EXCEPT ![c] = TRUE]
                    ELSE /\ c_sent' = [c_sent EXCEPT ![c] = "error"]
                         /\ c_pc' = [c_pc EXCEPT ![c] = "done"]
                         /\ UNCHANGED c_open
    /\ c_vad' = [c_vad EXCEPT ![c] = "idle"]
    /\ c_msgs' = [c_msgs EXCEPT ![c] = <<c_sent'[c]>>]
    /\ c_feed' = NoFeed
    /\ c_begin' = NoBegin
    /\ UNCHANGED <<c_after, c_left, c_chunks, c_turns, c_exit>>

\* What vad.process_chunk can do with the chunk, from detector state d: return None
\* and be idle or accumulating afterwards, return a segment (the detector has reset),
\* or raise on a payload with an odd number of bytes (np.frombuffer), state untouched.
VadVerdicts(d) ==
    {[ret |-> "none", vad |-> a] : a \in {"idle", "accumulating"}}
    \cup {[ret |-> "segment", vad |-> "idle"], [ret |-> "raise", vad |-> d]}

\* an "audio_chunk" message: base64 decoding (a failure skips the message), then
\* stt.process_chunk (a failure is logged), then vad.process_chunk (not in any try)
CallAudioChunk(c) ==
    /\ c_pc[c] = "loop"
    /\ c_chunks < MaxCallChunks
    /\ c_chunks' = c_chunks + 1
    /\ \E decoded \in BOOLEAN :
         IF ~decoded
         THEN /\ ReceivedThenSendAll(c, <<>>)
              /\ c_feed' = [conn |-> c, ord |-> c_chunks', calls |-> <<>>]
              /\ UNCHANGED <<call_streams, c_pc, c_sent, c_vad, c_exit>>
         ELSE \E p \in CsProcessChunkResults(call_streams[c_sid[c]]),
                 v \in VadVerdicts(c_vad[c]) :
                /\ call_streams' = [call_streams EXCEPT ![c_sid[c]] = p.st]
                /\ c_vad' = [c_vad EXCEPT ![c] = v.vad]
                /\ c_feed' = [conn |-> c, ord |-> c_chunks',
                              calls |-> FeedCalls(p.ret # "raise", v.ret # "raise")]
                /\ c_pc' = [c_pc EXCEPT ![c] = CASE v.ret = "none" -> "loop"
                                                 [] v.ret = "segment" -> "seg"
                                                 [] v.ret = "raise" -> "cleanup"]
                /\ c_exit' = [c_exit EXCEPT ![c] = IF v.ret = "raise" THEN "error" ELSE @]
                /\ c_sent' = [c_sent EXCEPT ![c] =
                                 CASE v.ret = "segment" -> "status_processing"
                                   [] v.ret = "raise" -> "error"
                                   [] v.ret = "none" -> IF p.ret = "text" /\ p.text
                                                        THEN "partial_transcription"
                                                        ELSE @]
                /\ LET partial == IF p.ret = "text" /\ p.text
                                  THEN <<"partial_transcription">> ELSE <<>>
                   IN ReceivedThenSendAll(c,
                         CASE v.ret = "segment" -> partial \o <<"status_processing">>
                           [] v.ret = "raise" -> partial \o <<"error">>
                           [] v.ret = "none" -> partial)
    /\ c_begin' = NoBegin
    /\ UNCHANGED <<c_start, c_sid, c_open, c_after, c_left, c_turns>>

\* the detector returned a segment: finalize, "transcription", reset, start, turn
CallSegment(c) ==
    /\ c_pc[c] = "seg"
    /\ \E f \in CsFinalizeResults(call_streams[c_sid[c]]) :
         \/ /\ f.ret = "text"
            /\ call_streams' = [call_streams EXCEPT ![c_sid[c]] = CsFresh]
            /\ BeginTurn(c, "loop", c_msgs[c], f.text)
            /\ c_feed' = NoFeed
            /\ UNCHANGED <<c_start, c_sid, c_open, c_chunks, c_vad, c_exit>>
         \/ /\ \E x \in (IF f.ret = "text" THEN CsResetResults(f.st) ELSE {f.st}) :
                 \E y \in CsRecoverResults(x) :
                    call_streams' = [call_streams EXCEPT ![c_sid[c]] = y]
            /\ c_sent' = [c_sent EXCEPT ![c] = "error"]
            /\ \E sent \in (IF f.ret = "text" THEN BOOLEAN ELSE {FALSE}) :
                 SendAll(c, IF sent THEN <<"transcription", "error">> ELSE <<"error">>)
            /\ c_pc' = [c_pc EXCEPT ![c] = "loop"]
            /\ c_feed' = NoFeed
            /\ c_begin' = NoBegin
            /\ UNCHANGED <<c_start, c_sid, c_open, c_after, c_left, c_chunks, c_turns, c_vad,
                           c_exit>>

\* process_streaming reaches "await tts.synthesize(...)"
CallSynthStart(c) ==
    /\ c_pc[c] = "turn"
    /\ c_left[c] > 0
    /\ c_pc' = [c_pc EXCEPT ![c] = "synth"]
    /\ c_feed' = NoFeed
    /\ c_begin' = NoBegin
    /\ UNCHANGED <<c_start, c_sid, c_open, c_after, c_left, c_sent, call_streams, c_chunks,
                   c_turns, c_vad, c_msgs, c_exit>>

\* tts.synthesize returns or raises; the audio is sent
CallSynthReturn(c) ==
    /\ c_pc[c] = "synth"
    /\ c_left' = [c_left EXCEPT ![c] = @ - 1]
    /\ c_pc' = [c_pc EXCEPT ![c] = "turn"]
    /\ \E ok \in BOOLEAN :
         /\ c_sent' = [c_sent EXCEPT ![c] = IF ok THEN "audio_chunk" ELSE @]
         /\ SendAll(c, IF ok THEN <<"audio_chunk">> ELSE <<>>)
    /\ c_feed' = NoFeed
    /\ c_begin' = NoBegin
    /\ UNCHANGED <<c_start, c_sid, c_open, c_after, c_chunks, call_streams, c_turns, c_vad,
                   c_exit>>

\* process_streaming returns to its call site, which runs on to its next await
CallTurnEnd(c) ==
    /\ c_pc[c] = "turn"
    /\ c_left[c] = 0
    /\ c_after' = [c_after EXCEPT ![c] = "none"]
    /\ CASE c_after[c] = "loop" ->
              /\ \E ok \in BOOLEAN :
                   /\ c_sent' = [c_sent EXCEPT ![c] =
                                    IF ok THEN "response_complete" ELSE "error"]
                   /\ SendAll(c, <<c_sent'[c]>>)
              /\ c_pc' = [c_pc EXCEPT ![c] = "loop"]
              /\ UNCHANGED call_streams
         [] c_after[c] = "end" ->
              /\ \E r \in CsResetResults(call_streams[c_sid[c]]) :
                   call_streams' = [call_streams EXCEPT ![c_sid[c]] = r]
              /\ c_sent' = [c_sent EXCEPT ![c] = "call_ended"]
              /\ \E ok \in BOOLEAN :
                   SendAll(c, <<IF ok THEN "response_complete" ELSE "error",
                                "call_ended">>)
              /\ c_pc' = [c_pc EXCEPT ![c] = "cleanup"]
         [] c_after[c] = "done" ->
              /\ \E r \in CsResetResults(call_streams[c_sid[c]]) :
                   call_streams' = [call_streams EXCEPT ![c_sid[c]] = r]
              /\ \E ok \in BOOLEAN :
                   /\ c_sent' = [c_sent EXCEPT ![c] =
                                    IF ok THEN "response_complete" ELSE "error"]
                   /\ SendAll(c, <<c_sent'[c]>>)
              /\ c_pc' = [c_pc EXCEPT ![c] = "done"]
    /\ c_feed' = NoFeed
    /\ c_begin' = NoBegin
    /\ UNCHANGED <<c_start, c_sid, c_open, c_left, c_chunks, c_turns, c_vad, c_exit>>

\* an "end_call" message
CallEndCall(c) ==
    /\ c_pc[c] = "loop"
    /\ \E f \in CsFinalizeResults(call_streams[c_sid[c]]) :
         IF f.ret = "text" /\ f.text
         THEN /\ call_streams' = [call_streams EXCEPT ![c_sid[c]] = f.st]
              /\ BeginTurn(c, "end", <<>>, f.text)
         ELSE /\ \E r \in CsResetResults(f.st) :
                   call_streams' = [call_streams EXCEPT ![c_sid[c]] = r]
              /\ c_sent' = [c_sent EXCEPT ![c] = "call_ended"]
              /\ ReceivedThenSendAll(c, <<"call_ended">>)
              /\ c_pc' = [c_pc EXCEPT ![c] = "cleanup"]
              /\ c_begin' = NoBegin
              /\ UNCHANGED <<c_after, c_left, c_turns>>
    /\ c_exit' = [c_exit EXCEPT ![c] = "end_call"]
    /\ c_feed' = NoFeed
    /\ UNCHANGED <<c_start, c_sid, c_open, c_chunks, c_vad>>

\* receive_text raises WebSocketDisconnect
CallDisconnect(c) ==
    /\ c_pc[c] = "loop"
    /\ c_open' = [c_open EXCEPT ![c] = FALSE]
    /\ c_pc' = [c_pc EXCEPT ![c] = "cleanup"]
    /\ c_exit' = [c_exit EXCEPT ![c] = "disconnect"]
    /\ ReceivedThenSendAll(c, <<>>)
    /\ c_feed' = NoFeed
    /\ c_begin' = NoBegin
    /\ UNCHANGED <<c_start, c_sid, c_after, c_left, c_sent, call_streams, c_chunks, c_turns,
                   c_vad>>

\* the finally block: finalize, a last turn if there is text and the client can be
\* reached, reset
CallCleanup(c) ==
    /\ c_pc[c] = "cleanup"
    /\ \E f \in CsFinalizeResults(call_streams[c_sid[c]]),
          reached \in (IF c_open[c] THEN BOOLEAN ELSE {FALSE}) :
         IF f.ret = "text" /\ f.text /\ reached
         THEN /\ call_streams' = [call_streams EXCEPT ![c_sid[c]] = f.st]
              /\ BeginTurn(c, "done", c_msgs[c], f.text)
         ELSE /\ \E r \in CsResetResults(f.st) :
                   call_streams' = [call_streams EXCEPT ![c_sid[c]] = r]
              /\ c_pc' = [c_pc EXCEPT ![c] = "done"]
              /\ c_begin' = NoBegin
              /\ UNCHANGED <<c_after, c_left, c_sent, c_turns, c_msgs>>
    /\ c_feed' = NoFeed
    /\ UNCHANGED <<c_start, c_sid, c_open, c_chunks, c_vad, c_exit>>

(***************************************************************************)
(* Context (backend/components/context.py) and SessionManager              *)
(* (backend/components/session_manager.py): dictionaries keyed by session  *)
(* id.  Their methods contain no await, so each runs as one step.  Every   *)
(* text is "x"; the system prompt is the message "system".                 *)
(***************************************************************************)
NoContext == [exists |-> FALSE, msgs |-> <<>>]
NoSession == [exists |-> FALSE]

CtxMsg(role, content) == [role |-> role, content |-> content]

StoreTexts == {"x"}

StoreInit ==
    /\ contexts = [s \in Sessions |-> NoContext]
    /\ sessions = [s \in Sessions |-> NoSession]
    /\ sh_ops = 0
    /\ sh_last = "none"

\* Context.get_context(session_id, session_info): creates the list, with the system
\* prompt when session_info is given, if the session has none
CtxGetContext(session_id) ==
    /\ \E has_info \in BOOLEAN :
         contexts' = [contexts EXCEPT ![session_id] =
                        IF @.exists THEN @
                        ELSE [exists |-> TRUE,
                              msgs |-> IF has_info THEN <<CtxMsg("system", "system")>>
                                       ELSE <<>>]]
    /\ UNCHANGED sessions

\* Context.update_context(session_id, user_input, assistant_response)
CtxUpdateContext(session_id) ==
    /\ Len(contexts[session_id].msgs) + 2 <= MaxContextMessages
    /\ \E user_input \in StoreTexts, assistant_response \in StoreTexts :
         contexts' = [contexts EXCEPT ![session_id] =
                        [exists |-> TRUE,
                         msgs |-> @.msgs \o <<CtxMsg("user", user_input),
                                              CtxMsg("assistant", assistant_response)>>]]
    /\ UNCHANGED sessions

\* Context.clear_context(session_id)
CtxClearContext(session_id) ==
    /\ contexts' = [contexts EXCEPT ![session_id] = NoContext]
    /\ UNCHANGED sessions

\* SessionManager.start_session(session_id, ...)
SmStartSession(session_id) ==
    /\ sessions' = [sessions EXCEPT ![session_id] =
                      [exists |-> TRUE, status |-> "active", stt_transcriptions |-> <<>>,
                       llm_responses |-> <<>>]]
    /\ UNCHANGED contexts

\* SessionManager.end_session(session_id)
SmEndSession(session_id) ==
    /\ sessions' = [sessions EXCEPT ![session_id] =
                      IF @.exists THEN [@ EXCEPT !.status = "ended"] ELSE @]
    /\ UNCHANGED contexts

\* SessionManager.add_stt_transcription(session_id, transcription)
SmAddSttTranscription(session_id) ==
    /\ sessions[session_id].exists =>
          Len(sessions[session_id].stt_transcriptions) < MaxPending
    /\ \E transcription \in StoreTexts :
         sessions' = [sessions EXCEPT ![session_id] =
                        IF @.exists
                        THEN [@ EXCEPT !.stt_transcriptions = Append(@, transcription)]
                        ELSE @]
    /\ UNCHANGED contexts

\* SessionManager.add_llm_response(session_id, user_input, response_text)
SmAddLlmResponse(session_id) ==
    /\ sessions[session_id].exists =>
          Len(sessions[session_id].llm_responses) < MaxPending
    /\ \E user_input \in StoreTexts, response_text \in StoreTexts :
         sessions' = [sessions EXCEPT ![session_id] =
                        IF @.exists
                        THEN [@ EXCEPT !.llm_responses =
                                 Append(@, [user_input |-> user_input,
                                            response_text |-> response_text])]
                        ELSE @]
    /\ UNCHANGED contexts

\* SessionManager.clear_pending_data(session_id)
SmClearPendingData(session_id) ==
    /\ sessions' = [sessions EXCEPT ![session_id] =
                      IF @.exists
                      THEN [@ EXCEPT !.stt_transcriptions = <<>>, !.llm_responses = <<>>]
                      ELSE @]
    /\ UNCHANGED contexts

\* One more operation, called with session_id.
OpOn(session_id) ==
    /\ sh_ops < MaxSessionOps
    /\ sh_ops' = sh_ops + 1
    /\ sh_last' = session_id
    /\ UNCHANGED <<trainVars, judgeVars>>

(***************************************************************************)
(* One training session (backend/main.py, orchestrator.py, llm.py): the    *)
(* bookkeeping of its turns and of end_training.  A turn is the call of    *)
(* process_streaming by the session's call handler; end_training is the    *)
(* HTTP request.  Both are coroutines of one event loop and interleave at  *)
(* their awaits.  The transcription of turn k is TrInput(k).  A Python     *)
(* value carries its type, because what the generation call does with its  *)
(* context argument depends on it.                                         *)
(***************************************************************************)
TrSession == "s1"

\* The transcription the call handler passes to turn k.
TrInput(k) == <<"u", IF k = 1 THEN "1" ELSE IF k = 2 THEN "2" ELSE "3">>

\* A Python list, as Context.get_context returns it (a dict would have type "dict"
\* and the keys system_prompt and conversation)
PyList(items) == [type |-> "list", items |-> items]

NoPrompt == [system_prompt |-> <<>>, conversation |-> <<>>]
NoGeneration == [kind |-> "none", prompt |-> NoPrompt]

\* llm.py 73-94: _build_prompt_from_context(context, user_input) reads
\* context.get("system_prompt") and context.get("conversation"); a list has no get
BuildPromptFromContext(context, user_input) ==
    IF context.type # "dict" THEN [kind |-> "raise", prompt |-> NoPrompt]
    ELSE [kind |-> "prompt",
          prompt |-> [system_prompt |-> context.system_prompt,
                      conversation |-> context.conversation
                                       \o <<[role |-> "manager", text |-> user_input]>>]]

\* llm.py 106-149, up to the first chunk: without a model the fallback sentence is
\* yielded; otherwise line 127 evaluates context.get(...) before the try block, then
\* the prompt is built inside it
GenerateResponseStream(llm_set, user_input, context) ==
    IF ~llm_set THEN [kind |-> "fallback", prompt |-> NoPrompt]
    ELSE IF context.type # "dict" THEN [kind |-> "raise", prompt |-> NoPrompt]
    ELSE BuildPromptFromContext(context, user_input)

\* "Net." stands for the sentence "Извините, языковая модель не настроена."
DeltaNotConfigured == <<"N", "e", "t", ".">>

\* The text the chunks of a generation add up to.
RawResponses(gen) ==
    IF gen.kind = "fallback" THEN {DeltaNotConfigured} ELSE {<<"a", ".">>, <<"b">>}

\* Context.get_context on the stored value ctx: the value stored afterwards
ContextAfterGet(ctx, has_info) ==
    IF ctx.exists THEN ctx
    ELSE [exists |-> TRUE,
          msgs |-> IF has_info THEN <<CtxMsg("system", "system")>> ELSE <<>>]

\* Context.update_context on the stored value ctx
ContextAfterUpdate(ctx, user_input, assistant_response) ==
    [exists |-> TRUE,
     msgs |-> ctx.msgs \o <<CtxMsg("user", user_input),
                            CtxMsg("assistant", assistant_response)>>]

\* SessionManager.add_stt_transcription on the stored record
SessionAfterStt(sess, transcription) ==
    IF sess.exists THEN [sess EXCEPT !.stt_transcriptions = Append(@, transcription)]
    ELSE sess

\* SessionManager.add_llm_response on the stored record
SessionAfterLlm(sess, user_input, response_text) ==
    IF sess.exists
    THEN [sess EXCEPT !.llm_responses =
             Append(@, [user_input |-> user_input, response_text |-> response_text])]
    ELSE sess

\* clear_pending_data, then end_session, on the stored record
SessionAfterEnd(sess) ==
    IF sess.exists
    THEN [sess EXCEPT !.stt_transcriptions = <<>>, !.llm_responses = <<>>,
                      !.status = "ended"]
    ELSE sess

\* SessionManager.get_pending_data
PendingData(sess) ==
    IF sess.exists
    THEN [stt_transcriptions |-> sess.stt_transcriptions,
          llm_responses |-> sess.llm_responses]
    ELSE [stt_transcriptions |-> <<>>, llm_responses |-> <<>>]

NoPending == [stt_transcriptions |-> <<>>, llm_responses |-> <<>>]
NoTurn == [k |-> 0, transcription |-> <<>>, context_data |-> PyList(<<>>),
           gen |-> NoGeneration]

\* A turn that has returned.
TurnRecord(k, transcription, gen, reply, outcome) ==
    [k |-> k, transcription |-> transcription, gen |-> gen, reply |-> reply,
     outcome |-> outcome]

\* No turn, no end_training, and no model configured.
TrainIdle ==
    /\ tr_llm = FALSE
    /\ tr_pc = "none"
    /\ tr_cur = NoTurn
    /\ tr_end = "none"
    /\ tr_snap = NoPending
    /\ tr_db = <<>>
    /\ tr_hist = <<>>
    /\ tr_rec = NoPending
    /\ tr_turns = 0
    /\ tr_ends = 0

\* As TrainIdle, with or without a configured model (LLM.__init__).
TrainInit ==
    /\ tr_llm \in BOOLEAN
    /\ tr_pc = "none"
    /\ tr_cur = NoTurn
    /\ tr_end = "none"
    /\ tr_snap = NoPending
    /\ tr_db = <<>>
    /\ tr_hist = <<>>
    /\ tr_rec = NoPending
    /\ tr_turns = 0
    /\ tr_ends = 0

\* POST /api/start-training: a new session id, session_manager.start_session
TrStartTraining ==
    /\ ~sessions[TrSession].exists
    /\ SmStartSession(TrSession)
    /\ tr_rec' = NoPending
    /\ UNCHANGED <<sh_ops, sh_last, tr_llm, tr_pc, tr_cur, tr_end, tr_snap, tr_db,
                   tr_hist, tr_turns, tr_ends>>

\* process_streaming, lines 131-182: the transcription is stored, the context read,
\* the "responding" status sent and the generation call made; a failed send or a
\* raising call ends the turn in the except branch (274-290)
TrTurnBegin ==
    /\ tr_pc = "none"
    /\ sessions[TrSession].exists
    /\ tr_turns < MaxTrainingTurns
    /\ LET k == tr_turns + 1
           transcription == TrInput(k)
           ctx == ContextAfterGet(contexts[TrSession], TRUE)
           context_data == PyList(ctx.msgs)
       IN /\ tr_turns' = k
          /\ sessions' = [sessions EXCEPT ![TrSession] = SessionAfterStt(@, transcription)]
          /\ contexts' = [contexts EXCEPT ![TrSession] = ctx]
          /\ tr_rec' = [tr_rec EXCEPT !.stt_transcriptions = Append(@, transcription)]
          /\ \E sent \in BOOLEAN :
               LET gen == IF sent
                          THEN GenerateResponseStream(tr_llm, transcription, context_data)
                          ELSE NoGeneration
               IN IF gen.kind \in {"none", "raise"}
                  THEN /\ tr_hist' = Append(tr_hist,
                                        TurnRecord(k, transcription, gen, <<>>, "error"))
                       /\ UNCHANGED <<tr_pc, tr_cur>>
                  ELSE /\ tr_pc' = "generating"
                       /\ tr_cur' = [k |-> k, transcription |-> transcription,
                                     context_data |-> context_data, gen |-> gen]
                       /\ UNCHANGED tr_hist
    /\ UNCHANGED <<sh_ops, sh_last, tr_llm, tr_end, tr_snap, tr_db, tr_ends>>

\* process_streaming, lines 243-263, after the last chunk and the last synthesis: the
\* cleaned reply is stored, the context updated and response_complete sent; a failed
\* send ends the turn in the except branch
TrTurnEnd ==
    /\ tr_pc = "generating"
    /\ \E raw_text \in RawResponses(tr_cur.gen), sent \in BOOLEAN :
         LET full_response == clean_reply(raw_text)
         IN /\ sessions' = [sessions EXCEPT ![TrSession] =
                              SessionAfterLlm(@, tr_cur.transcription, full_response)]
            /\ contexts' = [contexts EXCEPT ![TrSession] =
                              ContextAfterUpdate(@, tr_cur.transcription, full_response)]
            /\ tr_rec' = [tr_rec EXCEPT !.llm_responses =
                            Append(@, [user_input |-> tr_cur.transcription,
                                       response_text |-> full_response])]
            /\ tr_hist' = Append(tr_hist,
                             TurnRecord(tr_cur.k, tr_cur.transcription, tr_cur.gen,
                                        full_response,
                                        IF sent THEN "complete" ELSE "error"))
    /\ tr_pc' = "none"
    /\ tr_cur' = NoTurn
    /\ UNCHANGED <<sh_ops, sh_last, tr_llm, tr_end, tr_snap, tr_db, tr_turns, tr_ends>>

\* POST /api/end-training, orchestrator.process lines 56-64 and 76-81: with nothing
\* pending the session is ended at once, otherwise the pending lists are handed to
\* database.batch_log_session_data, which is awaited
TrEndTrainingBegin ==
    /\ tr_end = "none"
    /\ sessions[TrSession].exists
    /\ tr_ends < MaxEndTrainings
    /\ tr_ends' = tr_ends + 1
    /\ LET pending_data == PendingData(sessions[TrSession])
       IN IF pending_data = NoPending
          THEN /\ sessions' = [sessions EXCEPT ![TrSession] = SessionAfterEnd(@)]
               /\ contexts' = [contexts EXCEPT ![TrSession] = NoContext]
               /\ tr_rec' = NoPending
               /\ UNCHANGED <<tr_end, tr_snap>>
          ELSE /\ tr_end' = "writing"
               /\ tr_snap' = pending_data
               /\ UNCHANGED <<sessions, contexts, tr_rec>>
    /\ UNCHANGED <<sh_ops, sh_last, tr_llm, tr_pc, tr_cur, tr_db, tr_hist, tr_turns>>

\* orchestrator.process lines 66-81: the write returns or raises; the store was given
\* the lists themselves, so it wrote them as they were at the call or as they are
\* now; then clear_pending_data, end_session, clear_context
TrEndTrainingFinish ==
    /\ tr_end = "writing"
    /\ \E ok \in BOOLEAN, written \in {tr_snap, PendingData(sessions[TrSession])} :
         tr_db' = Append(tr_db, [written |-> written, ok |-> ok])
    /\ sessions' = [sessions EXCEPT ![TrSession] = SessionAfterEnd(@)]
    /\ contexts' = [contexts EXCEPT ![TrSession] = NoContext]
    /\ tr_end' = "none"
    /\ tr_snap' = NoPending
    /\ tr_rec' = NoPending
    /\ UNCHANGED <<sh_ops, sh_last, tr_llm, tr_pc, tr_cur, tr_hist, tr_turns, tr_ends>>

(***************************************************************************)
(* LLMJudge (backend/llm_judge).  A value of a model reply is a record      *)
(* [t, v] of its Python type and, for a bool or an int, its number; a       *)
(* total_score is kept in tenths of a point.  Of a result only the keys     *)
(* "error", "scores" and "total_score" are kept; the others are lists that  *)
(* evaluate copies from the reply or fills with constants.                  *)
(***************************************************************************)
PyBool(b) == [t |-> "bool", v |-> IF b THEN 1 ELSE 0]
PyInt(n) == [t |-> "int", v |-> n]
\* an int above the largest float, as json.loads returns it for a long literal
PyBigInt == [t |-> "bigint", v |-> 0]
PyStr == [t |-> "str", v |-> 0]
PyNone == [t |-> "none", v |-> 0]
\* the key is not in the dict
Absent == [t |-> "absent", v |-> 0]

\* float(x): the bool or int as a float, OverflowError for an int too large,
\* ValueError for a string that is no number, TypeError for None
PyFloat(x) ==
    CASE x.t \in {"bool", "int"} -> [raised |-> "none", v |-> x.v]
      [] x.t = "bigint" -> [raised |-> "OverflowError", v |-> 0]
      [] x.t = "str" -> [raised |-> "ValueError", v |-> 0]
      [] OTHER -> [raised |-> "TypeError", v |-> 0]

\* scenarios.py: relevant_criteria and weights of NOVICE_IP_NO_ACCOUNT_EASY
RelevantCriteria ==
    <<"greeting_correct", "congratulation_given", "compliance_free_account_ip",
      "compliance_account_docs_ip", "compliance_buh_free_usn_income",
      "verification_agreement_correctly_understood", "closing_success", "politeness">>

ScenarioWeights ==
    [greeting_correct |-> 1, congratulation_given |-> 1,
     compliance_free_account_ip |-> 2, compliance_account_docs_ip |-> 2,
     compliance_buh_free_usn_income |-> 1,
     verification_agreement_correctly_understood |-> 2, closing_success |-> 2,
     politeness |-> 2]

\* get_scenario_config: SCENARIO_CONFIG[scenario_id], KeyError for an unknown id
get_scenario_config(scenario_id) ==
    IF scenario_id = "novice_ip_no_account_easy"
    THEN [raised |-> "none", relevant_criteria |-> RelevantCriteria,
          weights |-> ScenarioWeights]
    ELSE [raised |-> "KeyError", relevant_criteria |-> <<>>, weights |-> ScenarioWeights]

\* scores.get(key, default)
ScoresGet(scores, key, default) ==
    IF scores[key].t = "absent" THEN default ELSE scores[key]

\* weights.get(crit, 0)
WeightsGet(weights, crit) ==
    IF crit \in DOMAIN weights THEN weights[crit] ELSE 0

\* _compute_total_score, the loop over relevant_criteria from index i on (in points)
RECURSIVE BooleanCriteriaTotal(_, _, _, _)
BooleanCriteriaTotal(scores, criteria, weights, i) ==
    IF i > Len(criteria) THEN 0
    ELSE LET crit == criteria[i]
             value == ScoresGet(scores, crit, PyNone)
             rest == BooleanCriteriaTotal(scores, criteria, weights, i + 1)
         IN IF crit = "politeness" THEN rest
            ELSE IF value.t = "bool" /\ value.v = 1
                 THEN WeightsGet(weights, crit) + rest
                 ELSE rest

\* _compute_total_score: the total in tenths, or the exception that leaves it
ComputeTotalScore(scores, scenario_id) ==
    LET scenario_config == get_scenario_config(scenario_id)
        weights == scenario_config.weights
        total == BooleanCriteriaTotal(scores, scenario_config.relevant_criteria, weights, 1)
        politeness_weight == WeightsGet(weights, "politeness")
        converted == PyFloat(ScoresGet(scores, "politeness", PyInt(0)))
        politeness_value ==
            IF converted.raised \in {"TypeError", "ValueError"} THEN 0
            ELSE IF converted.v < 0 THEN 0
            ELSE IF converted.v > 10 THEN 10
            ELSE converted.v
    IN IF scenario_config.raised # "none"
       THEN [raised |-> scenario_config.raised, total |-> 0]
       ELSE IF converted.raised = "OverflowError"
       THEN [raised |-> "OverflowError", total |-> 0]
       ELSE [raised |-> "none", total |-> 10 * total + politeness_value * politeness_weight]

\* _postprocess_scores_greeting: the first two manager lines hold "это", "ozon" and
\* "поздрав" and not "банк" (transcript holds the outcome of these four tests)
PostprocessScoresGreeting(transcript, scores) ==
    IF /\ transcript.manager_speaks
       /\ transcript.has_self_intro /\ transcript.has_congrats
       /\ ~transcript.has_bank_in_intro
    THEN [scores EXCEPT !["greeting_correct"] = PyBool(TRUE),
                        !["congratulation_given"] = PyBool(TRUE)]
    ELSE scores

\* a dict without any of the score keys
NoScores == [crit \in {RelevantCriteria[i] : i \in 1..Len(RelevantCriteria)} |-> Absent]

\* parse_llm_response: the stub of _get_default_response for a reply that is no JSON,
\* a TypeError on the first missing key for JSON that is no object, else the object
ParseLlmResponse(raw_reply) ==
    CASE raw_reply.kind = "not_json" ->
           [raised |-> "none", error |-> "format", scores |-> NoScores, total_score |-> 0]
      [] raw_reply.kind = "json_list" ->
           [raised |-> "TypeError", error |-> "none", scores |-> NoScores, total_score |-> 0]
      [] OTHER ->
           [raised |-> "none", error |-> "none", scores |-> raw_reply.scores,
            total_score |-> raw_reply.total_score]

\* Mutant of EvaluateExcept: the handler catches the errors of the reply only.
EvaluateExceptReplyOnly(exc) == exc \in {"TypeError", "ValueError", "KeyError"}

\* evaluate, line 328: "except Exception" catches every exception raised below it
EvaluateExcept(exc) ==
    exc \in {"RuntimeError", "TypeError", "ValueError", "KeyError", "OverflowError"}

\* evaluate, lines 330-341
EvaluationFailed ==
    [kind |-> "return", error |-> "LLM evaluation failed", scores |-> NoScores,
     total_score |-> 0]

\* evaluate: exc was raised inside the try block
EvaluateRaised(exc) ==
    IF EvaluateExcept(exc) THEN EvaluationFailed
    ELSE [kind |-> "raise", error |-> exc, scores |-> NoScores, total_score |-> 0]

\* LLMJudge.evaluate(transcript, scenario_id), the backend answering with reply
Evaluate(transcript, scenario_id, reply) ==
    LET scenario_config == get_scenario_config(scenario_id)
        result == ParseLlmResponse(reply)
        scores == PostprocessScoresGreeting(transcript, result.scores)
        computed == ComputeTotalScore(scores, scenario_id)
    IN IF scenario_config.raised # "none" THEN EvaluateRaised(scenario_config.raised)
       ELSE IF reply.kind = "raise" THEN EvaluateRaised("RuntimeError")
       ELSE IF result.raised # "none" THEN EvaluateRaised(result.raised)
       ELSE [kind |-> "return", error |-> result.error, scores |-> scores,
             total_score |-> IF computed.raised = "none" THEN computed.total
                             ELSE result.total_score]

\* The boolean criteria of the scenario.
BooleanCriteria ==
    {RelevantCriteria[i] : i \in 1..Len(RelevantCriteria)} \ {"politeness"}

\* What a reply gives for a criterion it does not score true.
OtherCriterionValues == {PyBool(FALSE), PyInt(1), Absent}

\* What a reply gives as politeness.
PolitenessValues ==
    {PyInt(-1), PyInt(0), PyInt(5), PyInt(10), PyInt(11), PyBigInt, PyStr, PyNone, Absent}

\* The totals a reply reports, in tenths.
ReportedTotals == {0, 70}

\* The first two manager lines of a transcript, by the tests of the greeting check.
JudgeTranscripts ==
    {[manager_speaks |-> TRUE, has_self_intro |-> TRUE, has_congrats |-> TRUE,
      has_bank_in_intro |-> FALSE],
     [manager_speaks |-> TRUE, has_self_intro |-> TRUE, has_congrats |-> TRUE,
      has_bank_in_intro |-> TRUE],
     [manager_speaks |-> FALSE, has_self_intro |-> FALSE, has_congrats |-> FALSE,
      has_bank_in_intro |-> FALSE]}

\* The replies of the backend: generate raises, or returns text that is no JSON, JSON
\* that is no object, or an object with scores and a total.
JudgeReplies ==
    {[kind |-> k, scores |-> NoScores, total_score |-> 0] :
        k \in {"raise", "not_json", "json_list"}}
    \cup
    {[kind |-> "json_object",
      scores |-> [crit \in DOMAIN NoScores |->
                    IF crit = "politeness" THEN politeness
                    ELSE IF crit \in scored THEN PyBool(TRUE) ELSE other],
      total_score |-> reported] :
        scored \in SUBSET BooleanCriteria, other \in OtherCriterionValues,
        politeness \in PolitenessValues, reported \in ReportedTotals}

\* test_judge.py 57-89: the transcript and the reply of test_judge_evaluate_success
TestTranscript ==
    [manager_speaks |-> TRUE, has_self_intro |-> TRUE, has_congrats |-> TRUE,
     has_bank_in_intro |-> FALSE]

TestReply ==
    [kind |-> "json_object",
     scores |-> [crit \in DOMAIN NoScores |->
                   IF crit = "politeness" THEN PyInt(10)
                   ELSE PyBool(crit \notin {"compliance_buh_free_usn_income",
                                            "closing_success"})],
     total_score |-> 0]

NoResult == [kind |-> "none", error |-> "none", scores |-> NoScores, total_score |-> 0]

\* No evaluation is asked for.
JudgeIdle ==
    /\ j_in = [transcript |-> TestTranscript,
               scenario_id |-> "novice_ip_no_account_easy", reply |-> TestReply]
    /\ j_out = NoResult

JudgeInit ==
    /\ j_in \in [transcript : JudgeTranscripts,
                 scenario_id : {"novice_ip_no_account_easy", "unknown"},
                 reply : JudgeReplies]
    /\ j_out = NoResult

\* one call of judge.evaluate
JudgeEvaluate ==
    /\ j_out = NoResult
    /\ j_out' = Evaluate(j_in.transcript, j_in.scenario_id, j_in.reply)
    /\ UNCHANGED j_in

(***************************************************************************)
(* Specifications.                                                         *)
(***************************************************************************)
\* The detector main.py constructs, with the durations shortened.
VadCallConfig ==
    [sample_rate |-> 16000, frame_duration_ms |-> 32, silence_duration_ms |-> 64,
     min_speech_duration_ms |-> 32]

InitVAD == VadInit /\ TurnInit /\ SttInit /\ CallInit /\ StoreInit /\ TrainIdle /\ JudgeIdle
NextVAD ==
    \/ VadProcessChunk /\ UNCHANGED <<turnVars, sttVars, callVars, storeVars, trainVars, judgeVars>>
    \/ VadProcessChunkOdd /\ UNCHANGED <<turnVars, sttVars, callVars, storeVars, trainVars, judgeVars>>
    \/ VadFlush /\ UNCHANGED <<turnVars, sttVars, callVars, storeVars, trainVars, judgeVars>>
SpecVAD == InitVAD /\ [][NextVAD]_vars

InitVadExample == VadExampleInit /\ TurnInit /\ SttInit /\ CallInit /\ StoreInit /\ TrainIdle /\ JudgeIdle
NextVadExample ==
    \/ VadExampleChunk /\ UNCHANGED <<turnVars, sttVars, callVars, storeVars, trainVars, judgeVars>>
SpecVadExample == InitVadExample /\ [][NextVadExample]_vars

\* Detectors constructed one after the other, with arguments of VadConstructorArgs.
InitVadConfig == VadInit /\ TurnInit /\ SttInit /\ CallInit /\ StoreInit /\ TrainIdle /\ JudgeIdle
NextVadConfig ==
    \/ VadConstruct /\ UNCHANGED <<turnVars, sttVars, callVars, storeVars, trainVars, judgeVars>>
SpecVadConfig == InitVadConfig /\ [][NextVadConfig]_vars

InitTurn == TurnInit /\ VadInit /\ vad_cfg = VadCallConfig /\ SttInit /\ CallInit /\ StoreInit /\ TrainIdle /\ JudgeIdle
NextTurn ==
    \/ TurnStart /\ UNCHANGED <<vadVars, sttVars, callVars, storeVars, trainVars, judgeVars>>
    \/ TurnDelta /\ UNCHANGED <<vadVars, sttVars, callVars, storeVars, trainVars, judgeVars>>
    \/ TurnGenerationError /\ UNCHANGED <<vadVars, sttVars, callVars, storeVars, trainVars, judgeVars>>
    \/ TurnNextSentence /\ UNCHANGED <<vadVars, sttVars, callVars, storeVars, trainVars, judgeVars>>
    \/ TurnSynthReturn /\ UNCHANGED <<vadVars, sttVars, callVars, storeVars, trainVars, judgeVars>>
    \/ TurnSendAudio /\ UNCHANGED <<vadVars, sttVars, callVars, storeVars, trainVars, judgeVars>>
    \/ TurnLoopEnd /\ UNCHANGED <<vadVars, sttVars, callVars, storeVars, trainVars, judgeVars>>
    \/ TurnStreamEnd /\ UNCHANGED <<vadVars, sttVars, callVars, storeVars, trainVars, judgeVars>>
    \/ TurnComplete /\ UNCHANGED <<vadVars, sttVars, callVars, storeVars, trainVars, judgeVars>>
SpecTurn == InitTurn /\ [][NextTurn]_vars

\* One turn whose generation stream yields the chunks of ExampleDeltas, in order.
NextTurnExample ==
    \/ TurnStart /\ UNCHANGED <<vadVars, sttVars, callVars, storeVars, trainVars, judgeVars>>
    \/ TurnExampleDelta /\ UNCHANGED <<vadVars, sttVars, callVars, storeVars, trainVars, judgeVars>>
    \/ TurnGenerationError /\ UNCHANGED <<vadVars, sttVars, callVars, storeVars, trainVars, judgeVars>>
    \/ TurnNextSentence /\ UNCHANGED <<vadVars, sttVars, callVars, storeVars, trainVars, judgeVars>>
    \/ TurnSynthReturn /\ UNCHANGED <<vadVars, sttVars, callVars, storeVars, trainVars, judgeVars>>
    \/ TurnSendAudio /\ UNCHANGED <<vadVars, sttVars, callVars, storeVars, trainVars, judgeVars>>
    \/ TurnLoopEnd /\ UNCHANGED <<vadVars, sttVars, callVars, storeVars, trainVars, judgeVars>>
    \/ TurnStreamEnd /\ UNCHANGED <<vadVars, sttVars, callVars, storeVars, trainVars, judgeVars>>
    \/ TurnComplete /\ UNCHANGED <<vadVars, sttVars, callVars, storeVars, trainVars, judgeVars>>
SpecTurnExample == InitTurn /\ [][NextTurnExample]_vars

InitSTT == SttInit /\ VadInit /\ vad_cfg = VadCallConfig /\ TurnInit /\ CallInit /\ StoreInit /\ TrainIdle /\ JudgeIdle
\* One client of the service, using one session id.
NextSTT ==
    \/ SttStartStream("s1") /\ UNCHANGED <<vadVars, turnVars, callVars, storeVars, trainVars, judgeVars>>
    \/ SttProcessChunk("s1") /\ UNCHANGED <<vadVars, turnVars, callVars, storeVars, trainVars, judgeVars>>
    \/ SttFinalizeStream("s1") /\ UNCHANGED <<vadVars, turnVars, callVars, storeVars, trainVars, judgeVars>>
    \/ SttResetStream("s1") /\ UNCHANGED <<vadVars, turnVars, callVars, storeVars, trainVars, judgeVars>>
SpecSTT == InitSTT /\ [][NextSTT]_vars

\* Two sessions: the transcriber's operations and those of the backend's stores, on
\* either session id, in any order.
InitSessions == StoreInit /\ SttInit /\ VadInit /\ vad_cfg = VadCallConfig /\ TurnInit /\ CallInit /\ TrainIdle /\ JudgeIdle
NextSessions ==
    \/ (\E s \in Sessions : SttStartStream(s) /\ OpOn(s))
          /\ UNCHANGED <<vadVars, turnVars, callVars, contexts, sessions>>
    \/ (\E s \in Sessions : SttProcessChunk(s) /\ OpOn(s))
          /\ UNCHANGED <<vadVars, turnVars, callVars, contexts, sessions>>
    \/ (\E s \in Sessions : SttFinalizeStream(s) /\ OpOn(s))
          /\ UNCHANGED <<vadVars, turnVars, callVars, contexts, sessions>>
    \/ (\E s \in Sessions : SttResetStream(s) /\ OpOn(s))
          /\ UNCHANGED <<vadVars, turnVars, callVars, contexts, sessions>>
    \/ (\E s \in Sessions : CtxGetContext(s) /\ OpOn(s))
          /\ UNCHANGED <<vadVars, turnVars, callVars, sttVars>>
    \/ (\E s \in Sessions : CtxUpdateContext(s) /\ OpOn(s))
          /\ UNCHANGED <<vadVars, turnVars, callVars, sttVars>>
    \/ (\E s \in Sessions : CtxClearContext(s) /\ OpOn(s))
          /\ UNCHANGED <<vadVars, turnVars, callVars, sttVars>>
    \/ (\E s \in Sessions : SmStartSession(s) /\ OpOn(s))
          /\ UNCHANGED <<vadVars, turnVars, callVars, sttVars>>
    \/ (\E s \in Sessions : SmEndSession(s) /\ OpOn(s))
          /\ UNCHANGED <<vadVars, turnVars, callVars, sttVars>>
    \/ (\E s \in Sessions : SmAddSttTranscription(s) /\ OpOn(s))
          /\ UNCHANGED <<vadVars, turnVars, callVars, sttVars>>
    \/ (\E s \in Sessions : SmAddLlmResponse(s) /\ OpOn(s))
          /\ UNCHANGED <<vadVars, turnVars, callVars, sttVars>>
    \/ (\E s \in Sessions : SmClearPendingData(s) /\ OpOn(s))
          /\ UNCHANGED <<vadVars, turnVars, callVars, sttVars>>
SpecSessions == InitSessions /\ [][NextSessions]_vars

\* One training session: start_training, the turns of its call, end_training.
InitTraining == StoreInit /\ TrainInit /\ SttInit /\ VadInit /\ vad_cfg = VadCallConfig
                /\ TurnInit /\ CallInit /\ JudgeIdle
NextTraining ==
    \/ TrStartTraining /\ UNCHANGED <<vadVars, turnVars, sttVars, callVars, judgeVars>>
    \/ TrTurnBegin /\ UNCHANGED <<vadVars, turnVars, sttVars, callVars, judgeVars>>
    \/ TrTurnEnd /\ UNCHANGED <<vadVars, turnVars, sttVars, callVars, judgeVars>>
    \/ TrEndTrainingBegin /\ UNCHANGED <<vadVars, turnVars, sttVars, callVars, judgeVars>>
    \/ TrEndTrainingFinish /\ UNCHANGED <<vadVars, turnVars, sttVars, callVars, judgeVars>>
SpecTraining == InitTraining /\ [][NextTraining]_vars

\* Single evaluations of the judge, over JudgeTranscripts and JudgeReplies.
InitJudge == JudgeInit /\ StoreInit /\ TrainIdle /\ SttInit /\ VadInit
             /\ vad_cfg = VadCallConfig /\ TurnInit /\ CallInit
NextJudge ==
    \/ JudgeEvaluate /\ UNCHANGED <<vadVars, turnVars, sttVars, callVars, storeVars, trainVars>>
SpecJudge == InitJudge /\ [][NextJudge]_vars

InitCall == CallInit /\ VadInit /\ vad_cfg = VadCallConfig /\ TurnInit /\ SttInit /\ StoreInit /\ TrainIdle /\ JudgeIdle
NextCall ==
    \/ (\E c \in Conns : CallConnect(c)) /\ UNCHANGED <<vadVars, turnVars, sttVars, storeVars, trainVars, judgeVars>>
    \/ (\E c \in Conns : CallAudioChunk(c)) /\ UNCHANGED <<vadVars, turnVars, sttVars, storeVars, trainVars, judgeVars>>
    \/ (\E c \in Conns : CallSegment(c)) /\ UNCHANGED <<vadVars, turnVars, sttVars, storeVars, trainVars, judgeVars>>
    \/ (\E c \in Conns : CallSynthStart(c)) /\ UNCHANGED <<vadVars, turnVars, sttVars, storeVars, trainVars, judgeVars>>
    \/ (\E c \in Conns : CallSynthReturn(c)) /\ UNCHANGED <<vadVars, turnVars, sttVars, storeVars, trainVars, judgeVars>>
    \/ (\E c \in Conns : CallTurnEnd(c)) /\ UNCHANGED <<vadVars, turnVars, sttVars, storeVars, trainVars, judgeVars>>
    \/ (\E c \in Conns : CallEndCall(c)) /\ UNCHANGED <<vadVars, turnVars, sttVars, storeVars, trainVars, judgeVars>>
    \/ (\E c \in Conns : CallDisconnect(c)) /\ UNCHANGED <<vadVars, turnVars, sttVars, storeVars, trainVars, judgeVars>>
    \/ (\E c \in Conns : CallCleanup(c)) /\ UNCHANGED <<vadVars, turnVars, sttVars, storeVars, trainVars, judgeVars>>
SpecCall == InitCall /\ [][NextCall]_vars

(***************************************************************************)
(* Properties of VADDetector (checked under SpecVAD).                      *)
(***************************************************************************)
Idle ==
    /\ speech_buffer = <<>>
    /\ silence_samples = 0
    /\ speech_samples = 0
    /\ ~speech_started
    /\ audio_buffer = EmptyRun

\* C1: when the trailing-silence counter reaches silence_threshold_samples while an
\* utterance is accumulated, a segment is returned iff the speech-sample counter is
\* >= min_speech_samples; otherwise nothing is returned and the detector is Idle; and
\* the counter never stays at or above the threshold without that decision.
C1_SegmentIffMinSpeech ==
    /\ vad_event.kind = "emit" =>
          /\ vad_event.silence >= SilenceThresholdSamples(vad_cfg)
          /\ vad_event.speech >= MinSpeechSamples(vad_cfg)
          /\ vad_ret.kind = "segment"
          /\ vad_ret.seg # <<>>
          /\ Idle
    /\ vad_event.kind = "discard" =>
          /\ vad_event.silence >= SilenceThresholdSamples(vad_cfg)
          /\ vad_event.speech < MinSpeechSamples(vad_cfg)
          /\ vad_ret.kind = "none"
          /\ Idle
    /\ vad_ret.kind = "segment" /\ vad_ret.op = "process_chunk" => vad_event.kind = "emit"
    /\ silence_samples < SilenceThresholdSamples(vad_cfg)

\* C1 witness: a segment was returned with exactly min_speech_samples of speech.
C1_Witness ==
    /\ vad_event.kind = "emit"
    /\ vad_event.speech = MinSpeechSamples(vad_cfg)
    /\ vad_ret.kind = "segment"

\* C8: every sample passed to process_chunk is handed to the classifier in a frame or
\* is still in the residual buffer: none is discarded.
C8_NoSampleDiscarded == vad_in = vad_fed + audio_buffer.len

\* The call that led to this state handled only below-threshold frames, at least one,
\* of an utterance that was being accumulated, and did not end it.
SilenceOnlyCall ==
    /\ speech_started
    /\ vad_ret'.op = "process_chunk"
    /\ vad_frames' # <<>>
    /\ \A i \in 1..Len(vad_frames') : vad_frames'[i].label = "silence"
    /\ vad_event'.kind = "none"

RECURSIVE FramesOf(_)
FramesOf(fs) == IF fs = <<>> THEN <<>> ELSE <<Head(fs).frame>> \o FramesOf(Tail(fs))

\* C9 as stated: while accumulating, a below-threshold frame is appended to the speech
\* buffer and the silence counter grows by the frame's sample count.
C9_SilenceFrameAppended ==
    [][SilenceOnlyCall =>
         /\ speech_buffer' = speech_buffer \o FramesOf(vad_frames')
         /\ silence_samples' =
              silence_samples + Len(vad_frames') * FrameSizeSamples(vad_cfg)]_vars

\* C9 amended: while accumulating, a below-threshold frame leaves the speech buffer
\* unchanged and the silence counter grows by the frame's sample count; the segment
\* returned at the end of speech holds the speech frames only.
C9_SilenceFrameCounted ==
    [][/\ SilenceOnlyCall =>
            /\ speech_buffer' = speech_buffer
            /\ silence_samples' =
                 silence_samples + Len(vad_frames') * FrameSizeSamples(vad_cfg)
       /\ vad_event'.kind = "emit" =>
            TotalSpeechSamples(vad_ret'.seg) = vad_event'.speech]_vars

\* C9 witness: a call has just handled one below-threshold frame of an utterance.
C9_Witness ==
    /\ speech_started
    /\ vad_ret.op = "process_chunk"
    /\ Len(vad_frames) = 1
    /\ vad_frames[1].label = "silence"
    /\ silence_samples = FrameSizeSamples(vad_cfg)
    /\ speech_buffer # <<>>

\* C10: after flush() returns the detector is Idle, whether the buffered audio was
\* returned as a segment or not.
C10_FlushLeavesIdle == vad_ret.op = "flush" => Idle

\* C22: flush() on a detector that is Idle, with an empty speech buffer and an empty
\* residual buffer, calls the classifier for no frame, returns nothing and leaves
\* every field of the detector as it was.
C22_FlushOnIdleUnchanged ==
    [][(Idle /\ vad_ret'.op = "flush") =>
          /\ vad_ret'.kind = "none" /\ vad_ret'.seg = <<>>
          /\ vad_frames' = <<>>
          /\ UNCHANGED <<speech_buffer, silence_samples, speech_started, speech_samples,
                         audio_buffer>>]_vars

\* C22 witness: flush() has returned nothing, without a classifier call, on a detector
\* that had been fed audio before and is Idle (a flush that returns nothing changes no
\* field, so it was Idle when flush was called).
C22_Witness ==
    /\ vad_ret.op = "flush" /\ vad_ret.kind = "none"
    /\ vad_event.kind = "flush_none"
    /\ vad_frames = <<>>
    /\ vad_calls > 0
    /\ Idle

(***************************************************************************)
(* Properties of the sentence pipeline (checked under SpecTurn).           *)
(***************************************************************************)
IsPrefix(a, b) == Len(a) <= Len(b) /\ SubSeq(b, 1, Len(a)) = a

\* The for loop is over and sentence_buffer holds what is left of the stream so far.
BetweenDeltas == t_pc \in {"stream", "final_synth", "final_send", "complete", "done"}

\* C2: the sentence units extracted so far, concatenated in emission order, followed
\* by the residual buffer, are the concatenation of the text chunks received so far.
C2_UnitsPlusResidualAreDeltas ==
    BetweenDeltas => Flatten(t_units) \o sentence_buffer = Flatten(t_deltas)

SentencePrivetKakDela ==
    <<"P", "r", "i", "v", "e", "t", ",", " ", "k", "a", "k", " ", "d", "e", "l", "a", "?">>

\* C3: for the chunks "Privet" ", kak " "dela?" " Spasibo." no unit is emitted before
\* the "?" has arrived and the text carried over is the chunks received, unchanged;
\* at the end exactly two units were emitted, the first reading "Privet, kak dela?",
\* and the residual is empty.
C3_ExampleTwoUnits ==
    (t_pc = "stream" /\ IsPrefix(t_deltas, ExampleDeltas)) =>
       /\ Len(t_deltas) <= 2 =>
            (t_units = <<>> /\ sentence_buffer = Flatten(t_deltas))
       /\ Len(t_deltas) = 4 =>
            /\ Len(t_units) = 2
            /\ t_units[1] = SentencePrivetKakDela
            /\ sentence_buffer = <<>>

\* the ordinals of the events e of the log, in order
RECURSIVE OrdsOf(_, _)
OrdsOf(log, e) ==
    IF log = <<>> THEN <<>>
    ELSE (IF Head(log).e = e THEN <<Head(log).k>> ELSE <<>>) \o OrdsOf(Tail(log), e)

StrictlyIncreasing(ks) == \A i \in 1..Len(ks) - 1 : ks[i] < ks[i + 1]

\* the text of the unit with ordinal k: an extracted sentence or the final residual
UnitText(k) == IF k <= Len(t_units) THEN t_units[k] ELSE Strip(sentence_buffer)

AudioTexts == SelectSeq(ws_out, LAMBDA m : m.type = "audio_chunk")

\* C4: the audio_chunk messages are sent in the order in which their sentences were
\* extracted; when a synthesis starts, every audio synthesized before has been handed
\* to the transport; the audio of the final residual is the last one.
C4_AudioInExtractionOrder ==
    /\ StrictlyIncreasing(OrdsOf(t_log, "audio"))
    /\ Len(AudioTexts) = Len(OrdsOf(t_log, "audio"))
    /\ \A i \in 1..Len(AudioTexts) :
         AudioTexts[i].text = UnitText(OrdsOf(t_log, "audio")[i])
    /\ \A i \in 1..Len(t_log) :
         t_log[i].e = "synth" =>
           \A j \in 1..(i - 1) :
             t_log[j].e = "audio_ready" =>
               \E m \in (j + 1)..(i - 1) :
                 /\ t_log[m].e \in {"audio", "send_failed"}
                 /\ t_log[m].k = t_log[j].k
    /\ \A i \in 1..Len(t_log) :
         (t_log[i].e = "audio" /\ t_log[i].k > Len(t_units)) =>
           \A j \in (i + 1)..Len(t_log) : t_log[j].e # "audio"

\* C4 witness: two sentences and the final residual were synthesized and sent.
C4_Witness ==
    /\ t_pc = "done"
    /\ Len(OrdsOf(t_log, "audio")) >= 3
    /\ \E i \in 1..Len(t_log) : t_log[i].e = "audio" /\ t_log[i].k = Len(t_units) + 1

\* The ordinals of the sentences with an event e in the log of the turn.
EventKs(e) == {t_log[i].k : i \in {j \in DOMAIN t_log : t_log[j].e = e}}

\* An audio_chunk message with this text has been sent.
AudioSentFor(text) == \E i \in DOMAIN AudioTexts : AudioTexts[i].text = text

TurnDoneAfterSynthesisError ==
    /\ t_pc = "done"
    /\ EventKs("synth_failed") # {}
    /\ EventKs("send_failed") = {}

C13_AtCompletion ==
    TurnDoneAfterSynthesisError =>
       /\ ws_out[Len(ws_out)] = Msg("response_complete", clean_reply(raw_response))
       /\ clean_reply(raw_response) # <<>>
       /\ \A k \in (1..Len(t_units)) \ EventKs("synth_failed") : AudioSentFor(t_units[k])
       /\ (Strip(sentence_buffer) # <<>> /\ Len(t_units) + 1 \notin EventKs("synth_failed"))
             => AudioSentFor(Strip(sentence_buffer))
       /\ StrictlyIncreasing(OrdsOf(t_log, "audio"))

C13_ErrorStep ==
    (t_pc \in {"synth", "final_synth"} /\ t_log' = Append(t_log, Ev("synth_failed", t_cur.k)))
    => /\ t_pc' = (IF t_pc = "synth" THEN "sentences" ELSE "complete")
       /\ t_queue' = t_queue
       /\ ws_out' = ws_out

C14_FallbackReplyOnly ==
    (/\ t_pc = "done"
     /\ t_gen = "failed"
     /\ Len(t_deltas) >= 2
     /\ EventKs("synth_failed") = {}
     /\ EventKs("send_failed") = {})
    => /\ AudioTexts = <<Msg("audio_chunk", DeltaApology)>>
       /\ ws_out[Len(ws_out)] = Msg("response_complete", DeltaApology)

(***************************************************************************)
(* Properties of the transcription streams (checked under SpecSTT).        *)
(***************************************************************************)
\* The step is operation op on session s, called while s had an open (started, not
\* finalized) stream.
SttStepOnOpen(s, op) ==
    /\ streams[s].exists /\ ~streams[s].finalized
    /\ stt_ret'.op = op /\ stt_ret'.sid = s

\* C6: within one stream the text returned by process_chunk, and then by finalize,
\* has the text returned before on that stream as a prefix, and the stored fragments
\* are only appended to.
C6_PartialTextOnlyExtends ==
    [][\A s \in Sessions :
         (SttStepOnOpen(s, "process_chunk") \/ SttStepOnOpen(s, "finalize_stream")) =>
            /\ IsPrefix(streams[s].all_phrases, streams'[s].all_phrases)
            /\ stt_ret'.kind = "text" => IsPrefix(stt_last[s], stt_ret'.text)]_vars

\* C6 witness: a process_chunk call that made one forward call returned a text built
\* from fragments of an earlier call as well.
C6_Witness ==
    /\ stt_ret.op = "process_chunk"
    /\ stt_ret.kind = "text"
    /\ Len(stt_frames) = 1
    /\ Len(streams[stt_ret.sid].all_phrases) >= 3
    /\ Len(stt_ret.text) >= 3

\* The step is a finalize_stream call on session s that directly follows another
\* finalize_stream call on s (no reset, start or chunk in between).
SecondFinalize(s) ==
    /\ stt_ret.op = "finalize_stream" /\ stt_ret.sid = s
    /\ streams[s].exists
    /\ stt_ret'.op = "finalize_stream" /\ stt_ret'.sid = s

\* C7: a finalize that follows a finalize on the same stream, with no reset in
\* between, does not duplicate fragments: when the first call returned a text the
\* second makes no recognizer call, leaves the stored fragment list unchanged and
\* returns the same text; when the first call failed after the recognizer had
\* consumed the padded residual frame, the second does not give that frame to the
\* recognizer again.
C7_SecondFinalizeSame ==
    [][\A s \in Sessions :
         SecondFinalize(s) =>
            /\ stt_ret.kind = "text" =>
                  /\ stt_ret'.kind = "text" /\ stt_ret'.text = stt_ret.text
                  /\ streams'[s].all_phrases = streams[s].all_phrases
                  /\ stt_frames' = <<>>
                  /\ stt_nfinalize' = 0
            /\ stt_ret.kind = "raise" /\ stt_ret.path = "finalize" =>
                  \A i \in DOMAIN stt_frames', j \in DOMAIN stt_frames :
                      stt_frames'[i] # stt_frames[j]]_vars

(***************************************************************************)
(* Properties of websocket_call (checked under SpecCall).                  *)
(***************************************************************************)
SynthesisInFlight(s) == {c \in Conns : c_sid[c] = s /\ c_pc[c] = "synth"}

\* C5: for one session id, at no time are two speech-synthesis calls in flight.
C5_OneSynthesisPerSession ==
    \A s \in Sessions : Cardinality(SynthesisInFlight(s)) <= 1

\* C11: when a handler has finished after end_call or after a disconnect, its
\* detector has been flushed: no unfinished utterance is left accumulating in it.
C11_DetectorFlushedAtTeardown ==
    \A c \in Conns :
        c_pc[c] = "done" /\ c_exit[c] \in {"end_call", "disconnect"} => c_vad[c] = "idle"

\* C12: the receive loop of a handler ends only on end_call or on disconnect, never
\* because handling an audio_chunk message failed.
C12_LoopEndsOnlyOnEndOrDisconnect ==
    \A c \in Conns : c_exit[c] \in {"none", "end_call", "disconnect"}

\* Real samples carried by a sequence of frames.
RECURSIVE FramesReal(_)
FramesReal(frames) ==
    IF frames = <<>> THEN 0 ELSE Head(frames).len + FramesReal(Tail(frames))

\* The step is a process_chunk call on session s made while the stream of s was
\* finalized (no start_stream or reset_stream since the finalize).
ChunkOnFinalized(s) ==
    /\ streams[s].exists /\ streams[s].finalized
    /\ stt_ret'.op = "process_chunk" /\ stt_ret'.sid = s

\* C15: a process_chunk on a finalized stream ends as start_stream followed by
\* process_chunk of the same chunk would: the stream is not finalized afterwards,
\* every decoded sample of the chunk is either in a frame given to the recognizer or
\* in the residual buffer, no sample from before the finalize is, and the stored
\* fragments and the returned text are those of a fresh stream fed this chunk.
C15_ChunkOnFinalizedRestarts ==
    [][\A s \in Sessions :
         ChunkOnFinalized(s) =>
            /\ ~streams'[s].finalized
            /\ FramesReal(stt_frames') + streams'[s].audio_buffer.len
                  = stt_in'[s] - stt_in[s]
            /\ streams'[s].audio_buffer.pad = 0
            /\ \A i \in 1..Len(stt_frames') :
                  stt_frames'[i].lo >= stt_in[s] /\ stt_frames'[i].pad = 0
            /\ \E decoded \in BOOLEAN, nsamples \in SttChunkSamples :
                 \E answers \in AnswersFor(IF decoded
                                           THEN nsamples \div RequiredChunkSize
                                           ELSE 0) :
                   LET r == ProcessChunkS(NewStream, decoded, nsamples, stt_in[s],
                                          answers)
                   IN /\ streams'[s] = r.st
                      /\ stt_frames' = r.frames
                      /\ stt_ret' = SttOp("process_chunk", s, r.ret)]_vars

\* C15 witness: a process_chunk call that found its stream finalized, the finalize
\* having left fragments behind, gave one frame to the recognizer and returned a text.
C15_Witness ==
    /\ stt_ret.op = "process_chunk" /\ stt_ret.kind = "text"
    /\ stt_warn = "finalized"
    /\ Len(stt_frames) = 1
    /\ stt_frames[1].lo > 0
    /\ stt_ret.text # <<>>
    /\ ~streams[stt_ret.sid].finalized

\* C16: reset_stream does not raise and leaves no stream state for its session; it
\* makes no recognizer call and touches no other session; on a session without a
\* stream (never started, or already reset) it changes nothing in the transcriber.
C16_ResetRemovesAndIsIdempotent ==
    [][\A s \in Sessions :
         (stt_ret'.op = "reset_stream" /\ stt_ret'.sid = s) =>
            /\ stt_ret'.kind # "raise"
            /\ streams'[s] = NoStream
            /\ \A o \in Sessions \ {s} : streams'[o] = streams[o]
            /\ stt_frames' = <<>> /\ stt_nfinalize' = 0 /\ stt_ncalls' = stt_ncalls
            /\ ~streams[s].exists => streams' = streams]_vars

\* C16 witness: reset_stream has returned on a session that had received audio and
\* whose stream the recognizer had been called for; no stream state is left.
C16_Witness ==
    /\ stt_ret.op = "reset_stream"
    /\ stt_in[stt_ret.sid] > 0
    /\ stt_ncalls > 0
    /\ ~streams[stt_ret.sid].exists

\* Every frame the last operation gave to pipeline.forward has the required size.
C17_FramesFull ==
    \A i \in 1..Len(stt_frames) : RunLen(stt_frames[i]) = RequiredChunkSize

\* A process_chunk that returned a text left less than one frame buffered; a
\* finalize_stream on an open stream holding a residual of received samples shorter
\* than a frame gave the recognizer one frame: the residual followed by zeros up to
\* the required size.
C17_ResidualStep ==
    \A s \in Sessions :
       /\ (stt_ret'.op = "process_chunk" /\ stt_ret'.sid = s /\ stt_ret'.kind = "text")
             => RunLen(streams'[s].audio_buffer) < RequiredChunkSize
       /\ (/\ SttStepOnOpen(s, "finalize_stream")
           /\ streams[s].audio_buffer.pad = 0
           /\ RunLen(streams[s].audio_buffer) > 0
           /\ RunLen(streams[s].audio_buffer) < RequiredChunkSize)
             => /\ Len(stt_frames') = 1
                /\ stt_frames'[1].lo = streams[s].audio_buffer.lo
                /\ stt_frames'[1].len = streams[s].audio_buffer.len
                /\ stt_frames'[1].pad
                      = RequiredChunkSize - RunLen(streams[s].audio_buffer)

\* C17: every forward call, from process_chunk or from finalize_stream, gets exactly
\* RequiredChunkSize samples; a shorter residual stays buffered after process_chunk
\* and is zero-padded to a full frame by finalize_stream.
C17_ForwardGetsFullFrames == [](C17_FramesFull) /\ [][C17_ResidualStep]_vars

\* C17 witness: finalize_stream gave the recognizer a zero-padded residual on a stream
\* for which process_chunk had made a forward call before.
C17_Witness ==
    /\ stt_ret.op = "finalize_stream"
    /\ Len(stt_frames) = 1
    /\ stt_frames[1].len > 0 /\ stt_frames[1].pad > 0
    /\ stt_frames[1].lo >= RequiredChunkSize
    /\ stt_ncalls >= 2

(***************************************************************************)
(* Further properties of the voice-activity detector (checked under        *)
(* SpecVAD).                                                               *)
(***************************************************************************)
\* C18: every frame the last operation (process_chunk or flush) gave to the
\* classifier has exactly frame_size_samples samples, and after a process_chunk call
\* the residual buffer holds fewer than frame_size_samples samples.
C18_ClassifierFramesFull ==
    /\ \A i \in 1..Len(vad_frames) :
          RunLen(vad_frames[i].frame) = FrameSizeSamples(vad_cfg)
    /\ vad_ret.op = "process_chunk" =>
          RunLen(audio_buffer) < FrameSizeSamples(vad_cfg)

\* C18 witness: a process_chunk call whose payload, with the residual before it, made
\* two frames and left a residual.
C18_Witness ==
    /\ vad_ret.op = "process_chunk"
    /\ Len(vad_frames) >= 2
    /\ vad_frames[1].frame.lo % FrameSizeSamples(vad_cfg) = 0
    /\ RunLen(audio_buffer) > 0

\* The classifier's answers for the frames of the last operation, in order.
FrameLabels(frames) == [i \in 1..Len(frames) |-> frames[i].label]

\* The same answers with every raise replaced by a score below threshold.
ErrorsAsSilence(labels) ==
    [i \in 1..Len(labels) |-> IF labels[i] = "error" THEN "silence" ELSE labels[i]]

\* C19: a process_chunk call during which the classifier raised on a frame does not
\* raise and leaves the detector, and returns, what the same call would with that
\* frame scored below threshold: while accumulating the silence counter has grown by
\* the frame's sample count and the end-of-speech check has run, in Idle nothing
\* has changed.
C19_ClassifierErrorIsSilence ==
    [][(/\ vad_ret'.op = "process_chunk"
        /\ \E i \in 1..Len(vad_frames') : vad_frames'[i].label = "error") =>
          LET d == ProcessChunkD(TheVad, vad_cfg, vad_in' - vad_in, vad_in,
                                 ErrorsAsSilence(FrameLabels(vad_frames')))
          IN /\ vad_ret'.kind # "raise"
             /\ vad_ret'.kind = d.ret.kind
             /\ vad_ret'.seg = d.ret.seg
             /\ speech_buffer' = d.speech_buffer
             /\ silence_samples' = d.silence_samples
             /\ speech_started' = d.speech_started
             /\ speech_samples' = d.speech_samples]_vars

\* Number of frames scored below threshold after the last frame scored at or above
\* it (frames on which the classifier raised are passed over).
RECURSIVE SilentSinceSpeech(_)
SilentSinceSpeech(labels) ==
    IF labels = <<>> THEN 0
    ELSE LET last == labels[Len(labels)]
             front == SubSeq(labels, 1, Len(labels) - 1)
         IN IF last = "speech" THEN 0
            ELSE (IF last = "silence" THEN 1 ELSE 0) + SilentSinceSpeech(front)

\* The frames scored at or above threshold, in order.
RECURSIVE SpeechFramesOf(_)
SpeechFramesOf(frames) ==
    IF frames = <<>> THEN <<>>
    ELSE (IF Head(frames).label = "speech" THEN <<Head(frames).frame>> ELSE <<>>)
         \o SpeechFramesOf(Tail(frames))

\* C20: over a process_chunk call every frame scored at or above threshold is
\* appended to the utterance and the silence counter counts only the frames scored
\* below threshold since the last such frame (since the start of the call only when
\* the call had none, added to the count before it); the call ends the utterance
\* exactly when that count reaches silence_threshold_samples.
C20_SpeechFrameResetsSilence ==
    [][(vad_ret'.op = "process_chunk" /\ vad_ret'.kind # "raise") =>
          LET labels == FrameLabels(vad_frames')
              has_speech == \E i \in 1..Len(labels) : labels[i] = "speech"
              run == IF has_speech
                     THEN SilentSinceSpeech(labels) * FrameSizeSamples(vad_cfg)
                     ELSE IF speech_started
                     THEN silence_samples
                          + SilentSinceSpeech(labels) * FrameSizeSamples(vad_cfg)
                     ELSE 0
              utterance == speech_buffer \o SpeechFramesOf(vad_frames')
          IN IF vad_event'.kind \in {"emit", "discard"}
             THEN /\ vad_event'.silence = run
                  /\ run >= SilenceThresholdSamples(vad_cfg)
                  /\ vad_event'.kind = "emit" => vad_ret'.seg = utterance
             ELSE /\ silence_samples' = run
                  /\ run < SilenceThresholdSamples(vad_cfg)
                  /\ speech_buffer' = utterance]_vars

\* C20 witness: during an utterance one call saw a frame below threshold, a frame at
\* or above it, and a frame below it again; the two silent frames together would
\* have reached the silence threshold, and the utterance goes on with one counted.
C20_Witness ==
    /\ vad_ret.op = "process_chunk"
    /\ FrameLabels(vad_frames) = <<"silence", "speech", "silence">>
    /\ Len(speech_buffer) = 2
    /\ speech_started
    /\ silence_samples = FrameSizeSamples(vad_cfg)
    /\ 2 * FrameSizeSamples(vad_cfg) >= SilenceThresholdSamples(vad_cfg)

(***************************************************************************)
(* The worked examples of the detector (checked under SpecVadExample).     *)
(***************************************************************************)
\* All the audio of the example has been passed to process_chunk.
ExampleFed == vad_in >= ExampleSamples

\* The frames of seg are the frames of the input from its first sample on, in order.
FramesFromStart(seg) ==
    \A i \in 1..Len(seg) :
       seg[i] = [lo |-> (i - 1) * FrameSizeSamples(vad_cfg),
                 len |-> FrameSizeSamples(vad_cfg), pad |-> 0]

\* C21: with the detector of websocket_call (16000 Hz, silence 1500 ms, minimum
\* speech 500 ms), 600 ms of speech then 1600 ms of silence make process_chunk return
\* exactly one segment, holding the frames of the speech (every frame wholly of
\* speech, and the frame with the end of the speech when it scored as speech) and no
\* frame of silence; 200 ms of speech then 1600 ms of silence make it return none;
\* either way the detector holds no utterance afterwards and silence sent after the
\* example brings no segment.
C21_WorkedExamples ==
    /\ Len(ex_segments) <= 1
    /\ ex_case.speech_ms = 200 => ex_segments = <<>>
    /\ ExampleFed =>
          /\ ex_case.speech_ms = 600 =>
                /\ Len(ex_segments) = 1
                /\ FramesFromStart(ex_segments[1])
                /\ Len(ex_segments[1])
                      >= ExampleSpeechSamples \div FrameSizeSamples(vad_cfg)
                /\ Len(ex_segments[1])
                      <= ExampleSpeechSamples \div FrameSizeSamples(vad_cfg) + 1
          /\ speech_buffer = <<>> /\ ~speech_started
          /\ silence_samples = 0 /\ speech_samples = 0

\* C21 witness: the 600 ms example has been fed, one segment was returned, and
\* silence has been sent after it.
C21_Witness ==
    /\ ex_case.speech_ms = 600
    /\ vad_in > ExampleSamples
    /\ Len(ex_segments) = 1
    /\ vad_frames # <<>>
    /\ ~speech_started

(***************************************************************************)
(* Further properties of the sentence pipeline (checked under SpecTurn).   *)
(***************************************************************************)
\* No two audio_chunk messages of the turn carry the same text.
C23_AudioTextsDistinct ==
    \A i, j \in DOMAIN AudioTexts :
       AudioTexts[i].text = AudioTexts[j].text => i = j

\* The for loop, or the handling of the final residual, does not call the
\* synthesizer for a text an audio_chunk message of the turn already carries.
C23_SentTextSkipped ==
    (t_pc' \in {"synth", "final_synth"} /\ t_pc \notin {"synth", "final_synth"})
       => ~AudioSentFor(t_cur'.text)

\* C23: within a turn no sentence text is sent more than once as audio: a sentence
\* whose text an audio_chunk message of the turn already carries is skipped without
\* a synthesis call.
C23_NoSentenceSentTwice == [](C23_AudioTextsDistinct) /\ [][C23_SentTextSkipped]_vars

\* C23 witness: the for loop has skipped an extracted sentence whose text had been
\* sent as audio before.
C23_Witness ==
    \E i \in DOMAIN t_log :
       /\ t_log[i].e = "skip"
       /\ t_units[t_log[i].k] # <<>>
       /\ \E j \in 1..(i - 1) :
            /\ t_log[j].e = "audio"
            /\ t_units[t_log[j].k] = t_units[t_log[i].k]

\* The generation stream ends in this step (the code after the async for begins).
StreamEnds == t_pc = "stream" /\ t_pc' \in {"final_synth", "complete"}

\* When the stream ends the synthesizer is called for the stripped buffer if that is
\* not empty, and for nothing otherwise.
C24_StreamEndStep ==
    StreamEnds =>
       IF Strip(sentence_buffer) # <<>>
       THEN /\ t_pc' = "final_synth"
            /\ t_cur'.text = Strip(sentence_buffer)
            /\ t_log' = Append(t_log, Ev("synth", Len(t_units) + 1))
       ELSE /\ t_pc' = "complete"
            /\ t_log' = t_log

\* At the end of a turn in which neither the synthesis nor the send of the final
\* residual failed.
C24_AtCompletion ==
    (/\ t_pc = "done"
     /\ Len(t_units) + 1 \notin EventKs("synth_failed") \cup EventKs("send_failed")) =>
       /\ ws_out[Len(ws_out)].type = "response_complete"
       /\ IF Strip(sentence_buffer) # <<>>
          THEN /\ Len(ws_out) >= 2
               /\ ws_out[Len(ws_out) - 1] = Msg("audio_chunk", Strip(sentence_buffer))
          ELSE /\ Len(t_units) + 1 \notin EventKs("synth") \cup EventKs("audio")
               /\ Len(AudioTexts) <= Len(t_units)

\* C24: when the stream of text chunks ends with non-whitespace text in the sentence
\* buffer, that text (stripped) is synthesized and its audio_chunk is the last one of
\* the turn, sent right before response_complete; when the buffer is empty or
\* whitespace only, no synthesis call and no audio_chunk follow the extracted
\* sentences.
C24_FinalResidualSynthesized == [](C24_AtCompletion) /\ [][C24_StreamEndStep]_vars

\* C24 witness: a turn is complete in which the audio of an extracted sentence and
\* then the audio of the final residual were sent.
C24_Witness ==
    /\ t_pc = "done"
    /\ Strip(sentence_buffer) # <<>>
    /\ Len(AudioTexts) >= 2
    /\ ws_out[Len(ws_out) - 1] = Msg("audio_chunk", Strip(sentence_buffer))

(***************************************************************************)
(* The messages of a turn (checked under SpecCall).                        *)
(***************************************************************************)
\* 1-based index of the "processing" status in ms, 0 if it is not there
ProcessingAt(ms) ==
    IF \E i \in DOMAIN ms : ms[i] = "status_processing"
    THEN CHOOSE i \in DOMAIN ms : ms[i] = "status_processing"
    ELSE 0

\* r is the beginning of: transcription, status(responding), audio_chunk any number
\* of times, response_complete; or such a beginning cut short by one error message.
TurnOrder(r) ==
    \A j \in DOMAIN r :
       /\ r[j] \in {"transcription", "status_responding", "audio_chunk",
                    "response_complete", "error"}
       /\ r[j] = "transcription" => j = 1
       /\ r[j] = "status_responding" => j = 2 /\ r[1] = "transcription"
       /\ r[j] = "audio_chunk" => j >= 3 /\ r[j - 1] \in {"status_responding", "audio_chunk"}
       /\ r[j] = "response_complete" =>
             /\ j = Len(r) /\ j >= 3
             /\ r[j - 1] \in {"status_responding", "audio_chunk"}
       /\ r[j] = "error" => j = Len(r)

\* C25: the messages a handler sends for the client message on which its detector
\* returned a segment are, after at most one partial_transcription, in the order
\* status(processing), transcription, status(responding), audio_chunk any number of
\* times, response_complete, or a beginning of that order ended by one error message;
\* response_complete is sent at most once and is the last of them, and when the
\* handler waits for the next client message the turn has ended with
\* response_complete or error.
C25_TurnMessageOrder ==
    \A c \in Conns :
       LET ms == c_msgs[c]
           i == ProcessingAt(ms)
           r == SubSeq(ms, i + 1, Len(ms))
       IN i > 0 =>
            /\ \A j \in 1..(i - 1) : ms[j] = "partial_transcription"
            /\ i <= 2
            /\ TurnOrder(r)
            /\ c_pc[c] = "loop" =>
                  r # <<>> /\ r[Len(r)] \in {"response_complete", "error"}

\* C25 witness: a handler is waiting for the next client message after a turn with
\* two audio_chunk messages and response_complete.
C25_Witness ==
    \E c \in Conns :
       /\ c_pc[c] = "loop"
       /\ c_msgs[c] = <<"status_processing", "transcription", "status_responding",
                        "audio_chunk", "audio_chunk", "response_complete">>

(***************************************************************************)
(* Independence of the sessions (checked under SpecSessions).              *)
(***************************************************************************)
\* C26: an operation of the transcriber, of Context or of SessionManager called with
\* one session id leaves the stream, the context and the session record stored under
\* every other session id as they were, whatever operations came before on either.
C26_OtherSessionsUntouched ==
    [][\A b \in Sessions :
         (sh_ops' = sh_ops + 1 /\ b # sh_last') =>
            /\ streams'[b] = streams[b]
            /\ contexts'[b] = contexts[b]
            /\ sessions'[b] = sessions[b]]_vars

\* C26 witness: process_chunk has run on s1 while s2 had a stream with recognized
\* fragments and a context with messages.
C26_Witness ==
    /\ sh_last = "s1"
    /\ stt_ret.op = "process_chunk" /\ stt_ret.sid = "s1" /\ stt_ret.kind = "text"
    /\ streams["s1"].exists
    /\ streams["s2"].exists /\ streams["s2"].all_phrases # <<>>
    /\ contexts["s2"].msgs # <<>>

(***************************************************************************)
(* Teardown and admission of a call (checked under SpecCall).              *)
(***************************************************************************)
\* The handler of connection c, which was admitted, returns in this step.
HandlerReturns(c) ==
    /\ c_pc[c] \in {"cleanup", "turn"}
    /\ c_pc'[c] = "done"

\* C27: when the handler of an admitted call returns, by whatever exit path, the
\* transcriber holds no stream for the call's session.
C27_NoStreamAfterTeardown ==
    [][\A c \in Conns :
         HandlerReturns(c) => ~call_streams'[c_sid[c]].exists]_vars

\* Connection c was admitted: its handler is, or has been, in the receive loop.
Admitted(c) == c_pc[c] \notin {"closed", "done"} \/ c_exit[c] # "none"

\* "connected" is among the messages last sent on connection c.
ConnectedSent(c) == \E i \in 1..Len(c_msgs[c]) : c_msgs[c][i] = "connected"

\* Connection c was turned away: one error message, channel closed, handler returned.
TurnedAway(c) ==
    /\ c_pc[c] = "done" /\ c_exit[c] = "none"
    /\ c_msgs[c] = <<"error">>
    /\ ~c_open[c]
    /\ c_vad[c] = "idle"

C28_AdmittedOrTurnedAway ==
    \A c \in Conns :
       c_pc[c] # "closed" =>
          /\ (Admitted(c) \/ ConnectedSent(c)) =>
                (c_sid[c] \in KnownSessions /\ c_start[c].known /\ c_start[c].started)
          /\ ~(c_start[c].known /\ c_start[c].started) => TurnedAway(c)

\* Nothing is received, processed or sent on a connection that was turned away.
C28_NothingAfterTurnedAway ==
    \A c \in Conns :
       (c_pc[c] # "closed" /\ ~(c_start[c].known /\ c_start[c].started)) =>
          /\ c_msgs'[c] = c_msgs[c] /\ c_pc'[c] = c_pc[c] /\ c_vad'[c] = c_vad[c]
          /\ c_exit'[c] = c_exit[c] /\ c_open'[c] = c_open[c]

\* C28: a connection gets "connected" and has its audio chunks processed only if its
\* session id is known and start_stream succeeded; any other connection gets exactly
\* one error message, is closed, and no message of it is processed afterwards.
C28_AdmissionOnlyAfterStart ==
    [](C28_AdmittedOrTurnedAway) /\ [][C28_NothingAfterTurnedAway]_vars

\* C28 witness: one connection was turned away because start_stream failed, while the
\* other was admitted and had an audio chunk processed.
C28_Witness ==
    \E c, d \in Conns :
       /\ c_start[c].known /\ ~c_start[c].started /\ TurnedAway(c)
       /\ c_start[d].started /\ c_chunks > 0 /\ c_pc[d] = "loop"

(***************************************************************************)
(* Sizes computed by the detector's constructor (checked under             *)
(* SpecVadConfig).                                                         *)
(***************************************************************************)
\* n = floor(num / den), for den > 0, stated without division
IsFloorOf(n, num, den) == n * den <= num /\ num < (n + 1) * den

\* n >= floor(num / den), for den > 0, stated without division
AtLeastFloorOf(n, num, den) == (n + 1) * den > num

\* C29: frame_size_samples is at least floor(sample_rate / 31.25), and
\* silence_threshold_samples and min_speech_samples are floor(sample_rate * ms / 1000)
\* of silence_duration_ms and min_speech_duration_ms.
C29_SizesFromDurations ==
    /\ AtLeastFloorOf(FrameSizeSamples(vad_cfg), vad_cfg.sample_rate * 100, 3125)
    /\ IsFloorOf(SilenceThresholdSamples(vad_cfg),
                 vad_cfg.sample_rate * vad_cfg.silence_duration_ms, 1000)
    /\ IsFloorOf(MinSpeechSamples(vad_cfg),
                 vad_cfg.sample_rate * vad_cfg.min_speech_duration_ms, 1000)

\* C29 witness: a detector was constructed at 8000 Hz with a frame duration below the
\* classifier's 32 ms and a silence duration of 1 ms.
C29_Witness ==
    /\ vad_ret.op = "construct"
    /\ vad_cfg.sample_rate = 8000
    /\ vad_cfg.frame_duration_ms = 10
    /\ vad_cfg.silence_duration_ms = 1
    /\ FrameSizeSamples(vad_cfg) = 256
    /\ SilenceThresholdSamples(vad_cfg) = 8

(***************************************************************************)
(* A whole stream: process_chunk calls, then finalize (checked under       *)
(* SpecSTT).                                                               *)
(***************************************************************************)
\* frames are what [the n samples with ordinals base .. base+n-1, followed by fewer
\* than RequiredChunkSize zeros] is when cut into pieces of RequiredChunkSize
CutInOrder(frames, base, n) ==
    /\ Len(frames) * RequiredChunkSize >= n
    /\ Len(frames) * RequiredChunkSize < n + RequiredChunkSize
    /\ \A i \in 1..Len(frames) :
          /\ frames[i].lo = base + (i - 1) * RequiredChunkSize
          /\ frames[i].len = Min(RequiredChunkSize, n - (i - 1) * RequiredChunkSize)
          /\ frames[i].pad = RequiredChunkSize - frames[i].len

\* finalize_stream has just returned on session s, for the first time on its stream,
\* and no recognizer call on that stream raised.
FinalizedCleanly(s) ==
    /\ stt_ret.op = "finalize_stream" /\ stt_ret.sid = s /\ stt_ret.kind = "text"
    /\ stt_ret.path \in {"finalized", "no_state"}
    /\ ~stt_hist[s].failed

\* C30: when finalize returns on a stream on which no recognizer call raised, the
\* frames forwarded since the stream was created are the samples decoded since then,
\* in arrival order, each once, followed by fewer than RequiredChunkSize zeros; the
\* text returned is built from all phrases the recognizer returned, forward's in order
\* and then finalize's; and the stream is finalized.
C30_StreamForwardedWhole ==
    \A s \in Sessions :
       FinalizedCleanly(s) =>
          /\ CutInOrder(stt_hist[s].frames, stt_hist[s].base,
                        stt_in[s] - stt_hist[s].base)
          /\ stt_ret.text = Transcription(stt_hist[s].heard)
          /\ streams[s].finalized

\* C30 witness: finalize has returned after two frames were forwarded, the second of
\* them padded, with phrases from forward and from finalize in the text.
C30_Witness ==
    /\ FinalizedCleanly("s1")
    /\ stt_ret.path = "finalized"
    /\ Len(stt_hist["s1"].frames) = 2
    /\ stt_hist["s1"].frames[2].pad > 0
    /\ Len(stt_hist["s1"].heard) >= 3
    /\ stt_nfinalize = 1

(***************************************************************************)
(* Conversation history and the prompt of a turn (checked under            *)
(* SpecTraining).                                                          *)
(***************************************************************************)
\* The texts a prompt is built from, in order.
PromptTexts(prompt) ==
    <<prompt.system_prompt>>
    \o [i \in 1..Len(prompt.conversation) |-> prompt.conversation[i].text]

\* The system prompt and the stored history, followed by the new input.
ContextTexts(items, user_input) ==
    [i \in 1..Len(items) |-> items[i].content] \o <<user_input>>

\* The turn in flight has completed in this step.
TurnCompletes ==
    /\ tr_pc = "generating" /\ tr_pc' = "none"
    /\ tr_hist'[Len(tr_hist')].outcome = "complete"

C31_HistoryAppended ==
    TurnCompletes =>
       LET t == tr_hist'[Len(tr_hist')]
       IN contexts'[TrSession].msgs =
             contexts[TrSession].msgs
             \o <<CtxMsg("user", t.transcription), CtxMsg("assistant", t.reply)>>

C31_PromptFromHistory ==
    /\ \A i \in 1..Len(tr_hist) :
          (tr_llm /\ tr_hist[i].gen.kind # "none") => tr_hist[i].gen.kind = "prompt"
    /\ (tr_llm /\ tr_pc = "generating") =>
          /\ tr_cur.gen.kind = "prompt"
          /\ PromptTexts(tr_cur.gen.prompt)
                = ContextTexts(tr_cur.context_data.items, tr_cur.transcription)

\* C31: a completed turn appends its transcription and its cleaned reply to the
\* session's history, and with a model configured every generation call is given a
\* prompt built from the system prompt, the stored history and the new input.
C31_HistoryFeedsPrompt ==
    [](C31_PromptFromHistory) /\ [][C31_HistoryAppended]_vars

(***************************************************************************)
(* Feeding of the audio chunks (checked under SpecCall).                   *)
(***************************************************************************)
\* C32: the handler of an audio_chunk message calls the transcriber once and then the
\* detector once for it, before it receives the next message, and it calls the
\* detector also when the transcriber raised; a message whose payload cannot be
\* decoded is given to neither.
C32_ChunkFedToBoth ==
    c_feed # NoFeed =>
       /\ c_feed.ord = c_chunks
       /\ c_pc[c_feed.conn] \in {"loop", "seg", "cleanup"}
       /\ \/ c_feed.calls = <<>>
          \/ /\ Len(c_feed.calls) = 2
             /\ c_feed.calls[1].to = "stt"
             /\ c_feed.calls[2].to = "vad"

\* C32 witness: the transcriber raised on the second chunk of the call and the
\* detector processed that chunk.
C32_Witness ==
    /\ c_feed.ord = 2
    /\ Len(c_feed.calls) = 2
    /\ ~c_feed.calls[1].ok
    /\ c_feed.calls[2].to = "vad" /\ c_feed.calls[2].ok

(***************************************************************************)
(* The batch write of end_training (checked under SpecTraining).           *)
(***************************************************************************)
\* The step in which end_training returns after its batch write.
EndTrainingReturns == tr_end = "writing" /\ tr_end' = "none"

\* C33: when end_training returns after its batch write, the one batch handed to the
\* store holds every transcription and every reply recorded for the session up to
\* then, the pending lists of the session are empty, its status is "ended" and its
\* context is removed, whether the write succeeded or raised.
C33_EverythingWrittenThenCleared ==
    [][EndTrainingReturns =>
          /\ Len(tr_db') = Len(tr_db) + 1
          /\ tr_db'[Len(tr_db')].written = tr_rec
          /\ PendingData(sessions'[TrSession]) = NoPending
          /\ sessions'[TrSession].status = "ended"
          /\ contexts'[TrSession] = NoContext]_vars

(***************************************************************************)
(* The judge (checked under SpecJudge).                                    *)
(***************************************************************************)
\* C34: evaluate returns and never raises, and when the backend's generate call
\* raised, what it returns holds an "error" key and total_score 0.
C34_EvaluateNeverRaises ==
    j_out # NoResult =>
       /\ j_out.kind = "return"
       /\ j_in.reply.kind = "raise" => j_out.error # "none" /\ j_out.total_score = 0

\* C34 witness: an evaluation of a known scenario in which generate raised.
C34_Witness ==
    /\ j_out.kind = "return"
    /\ j_in.reply.kind = "raise"
    /\ j_in.scenario_id = "novice_ip_no_account_easy"
    /\ j_out.error = "LLM evaluation failed"

\* The sum of the weights of the criteria of S (in points).
RECURSIVE WeightSum(_)
WeightSum(S) ==
    IF S = {} THEN 0
    ELSE LET crit == CHOOSE x \in S : TRUE
         IN ScenarioWeights[crit] + WeightSum(S \ {crit})

\* clamp(n, 0, 10), an int above every float being above 10
Clamp10(x) ==
    IF x.t = "bigint" THEN 10
    ELSE IF x.v < 0 THEN 0 ELSE IF x.v > 10 THEN 10 ELSE x.v

\* The evaluation returned a result built from a reply with a numeric politeness.
ScoredWithPoliteness ==
    /\ j_out.kind = "return"
    /\ j_out.error # "LLM evaluation failed"
    /\ j_out.scores["politeness"].t \in {"int", "bigint"}

\* C35: the total_score of a result is the sum of the weights of the relevant boolean
\* criteria its scores hold as true plus weight(politeness) * clamp(politeness, 0, 10)
\* / 10, whatever total the reply reported; for the scores of
\* test_judge_evaluate_success it is 10.
C35_TotalRecomputed ==
    /\ ScoredWithPoliteness =>
          j_out.total_score =
             10 * WeightSum({crit \in BooleanCriteria : j_out.scores[crit] = PyBool(TRUE)})
             + ScenarioWeights["politeness"] * Clamp10(j_out.scores["politeness"])
    /\ (j_out # NoResult /\ j_in.reply = TestReply /\ j_in.transcript = TestTranscript
        /\ j_in.scenario_id = "novice_ip_no_account_easy")
          => j_out.total_score = 100

(***************************************************************************)
(* What a returned segment holds (checked under SpecVAD).                  *)
(***************************************************************************)
\* The frames of seg follow each other in the order their samples arrived.
InArrivalOrder(seg) ==
    \A i, j \in 1..Len(seg) : i < j => seg[i].lo < seg[j].lo

\* What the last operation returned is a segment as the detector promises it.
C36_SegmentWellFormed ==
    vad_ret.kind = "segment" =>
       /\ Len(vad_ret.seg) > 0
       /\ TotalSpeechSamples(vad_ret.seg) >= MinSpeechSamples(vad_cfg)
       /\ InArrivalOrder(vad_ret.seg)
       /\ vad_ret.op = "process_chunk" =>
             /\ vad_frames # <<>>
             /\ vad_frames[Len(vad_frames)].label = "silence"

\* Over one operation the utterance grows by the frames scored at or above
\* threshold, in order, and by nothing else; a returned segment is that utterance.
C36_OnlySpeechFramesKept ==
    LET utterance == speech_buffer \o SpeechFramesOf(vad_frames')
    IN /\ vad_ret'.kind = "segment" => vad_ret'.seg = utterance
       /\ speech_buffer' \in {<<>>, utterance}

\* C36: every segment process_chunk or flush returns is non-empty, holds at least
\* min_speech_samples samples and consists of exactly the frames the classifier
\* scored at or above threshold since the utterance began, in arrival order;
\* process_chunk returns a segment (one list, or none) only from the end-of-speech
\* check of a frame scored below threshold, the last frame it handled.
C36_SegmentsHoldSpeechOnly ==
    [](C36_SegmentWellFormed) /\ [][C36_OnlySpeechFramesKept]_vars

\* C36 witness: process_chunk returned a segment of two frames that an earlier call
\* had begun, after a frame below threshold.
C36_Witness ==
    /\ vad_ret.kind = "segment"
    /\ vad_ret.op = "process_chunk"
    /\ Len(vad_ret.seg) = 2
    /\ Len(SpeechFramesOf(vad_frames)) = 1
    /\ vad_frames[Len(vad_frames)].label = "silence"

(***************************************************************************)
(* Utterances and turns of a call (checked under SpecCall).                *)
(***************************************************************************)
\* No other connection uses the session of connection c.
AloneOnSession(c) == \A d \in Conns \ {c} : c_sid[d] # c_sid[c]

\* Number of "transcription" messages among ms.
TranscriptionsSent(ms) == Cardinality({i \in 1..Len(ms) : ms[i] = "transcription"})

\* C37: a connection that was sent the transcription of the trailing utterance by
\* end_call, and had its turn run, is not sent a transcription again and has no
\* second turn run by the handler's cleanup, whether or not the reset of the
\* stream succeeded: from the end_call message on, at most one transcription is
\* sent on it.
C37_TrailingUtteranceOnce ==
    \A c \in Conns :
       (c_exit[c] = "end_call" /\ AloneOnSession(c)) =>
          TranscriptionsSent(c_msgs[c]) <= 1

\* C38: when the handler has dealt with a detected segment and goes on, into the turn
\* or back to the receive loop after a failure, the stream of its session is a new
\* one: it exists, is not finalized and holds no audio and no text.
C38_FreshStreamAfterSegment ==
    [][\A c \in Conns :
          (c_pc[c] = "seg" /\ c_pc'[c] # "seg") =>
             call_streams'[c_sid[c]] = CsFresh]_vars

\* C39: process_streaming is called only with a transcription that is not empty, from
\* the segment branch, from end_call and from the cleanup alike.
C39_NoTurnForEmptyText ==
    c_begin # NoBegin => c_begin.text

(***************************************************************************)
(* What a turn stores (checked under SpecTraining).                        *)
(***************************************************************************)
\* A turn has ended in the except branch in this step.
TurnFails ==
    /\ Len(tr_hist') = Len(tr_hist) + 1
    /\ tr_hist'[Len(tr_hist')].outcome = "error"

\* The user and assistant messages of a stored context.
Conversation(ctx) ==
    LET OfTurn(msg) == msg.role # "system" IN SelectSeq(ctx.msgs, OfTurn)

C40_RepliesAtMostTranscriptions ==
    sessions[TrSession].exists =>
       Len(sessions[TrSession].llm_responses)
          <= Len(sessions[TrSession].stt_transcriptions)

C40_TurnStores ==
    /\ tr_turns' = tr_turns + 1 =>
          sessions'[TrSession].stt_transcriptions =
             Append(sessions[TrSession].stt_transcriptions, TrInput(tr_turns'))
    /\ TurnCompletes =>
          LET t == tr_hist'[Len(tr_hist')]
          IN /\ sessions'[TrSession].stt_transcriptions
                   = sessions[TrSession].stt_transcriptions
             /\ sessions'[TrSession].llm_responses =
                   Append(sessions[TrSession].llm_responses,
                          [user_input |-> t.transcription, response_text |-> t.reply])
             /\ contexts'[TrSession].msgs =
                   contexts[TrSession].msgs
                   \o <<CtxMsg("user", t.transcription), CtxMsg("assistant", t.reply)>>
    /\ TurnFails =>
          /\ sessions'[TrSession].llm_responses = sessions[TrSession].llm_responses
          /\ Conversation(contexts'[TrSession]) = Conversation(contexts[TrSession])

\* C40: a session never holds more stored replies than stored transcriptions; a turn
\* stores one transcription when it begins, a turn that reaches response_complete
\* stores one reply and one user/assistant pair of the context besides, and a turn
\* that fails stores no reply and adds no message to the context.
C40_TurnsStoreInPairs ==
    [](C40_RepliesAtMostTranscriptions) /\ [][C40_TurnStores]_vars

====
